---- MODULE Spec2Model ----
(***************************************************************************)
(* QR based attendance backend (Express + MySQL): the timetable routes,    *)
(* QR code generation and attendance marking, as a state machine.          *)
(*                                                                         *)
(* Tables are sets of rows.  A request is handled by a worker; a handler   *)
(* is either run as one action (requests served one after another) or as   *)
(* one action per awaited query (requests interleaved at their awaits: the *)
(* server has one MySQL connection, so each statement is atomic and the    *)
(* handlers interleave between statements).                                *)
(*                                                                         *)
(* Instants are whole seconds since Monday 00:00:00 of the server's local  *)
(* clock; every statement of the store succeeds unless a key constraint    *)
(* rejects it; a statement that fails for another reason is modelled only  *)
(* where a specification says so (SpecDeviceFailure).                      *)
(*                                                                         *)
(* The browser holds the auth state of the frontend (AuthContext.jsx); it  *)
(* changes only in the specification of the frontend (SpecBrowser).        *)
(***************************************************************************)
EXTENDS Integers, Sequences, FiniteSets, TLC

VARIABLES
    timetable,   \* rows of table timetable
    nextTid,     \* number of Timetable_IDs drawn so far (uuidv4 never repeats)
    QR_code,     \* rows of table QR_code
    attendance,  \* rows of table attendance
    student_devices, \* per student: Last_Used of the registered device
    now,         \* the clock: seconds since Monday 00:00:00
    pc,          \* per worker: where its handler stands
    req,         \* per worker: the request it serves
    loc,         \* per worker: the handler's local variables
    res,         \* per worker: the response sent
    state,       \* the browser: the state of AuthProvider's reducer
    localStorage, \* the browser: the items of localStorage
    logouts      \* the browser: the calls of logout() made so far

vars == <<timetable, nextTid, QR_code, attendance, student_devices, now, pc, req, loc, res,
          state, localStorage, logouts>>

\* what the backend never touches
browser == <<state, localStorage, logouts>>

-----------------------------------------------------------------------------
(* Bounds of the model *)

\* Timetable_IDs that may be drawn (successful and failed inserts)
MaxTid == 2
\* QR codes that may be generated
MaxQr == 2
\* seconds modelled on each side of a boundary instant
Skew == 1

(* Program constants *)

\* INTERVAL 15 MINUTE / 15 * 60000 ms
ValidityMinutes == 15

Window == ValidityMinutes * 60

-----------------------------------------------------------------------------
(* The directory the core reads: accounts, assignments, enrolments *)

Workers == {"w1", "w2"}

Teachers == {"t1", "t2"}
Admins == {"t2"}
Students == {"s1", "s2", "s3"}
Courses == {"c1", "c2"}
Divisions == {"d1", "d2"}
Rooms == {"r1", "r2"}

\* rows of teacher_course
teacher_course == {<<"t1", "c1">>, <<"t1", "c2">>, <<"t2", "c1">>}
\* rows of student_course
student_course == {<<"s1", "c1">>, <<"s2", "c2">>, <<"s3", "c1">>}

\* the payload of a verified login token
TeacherUser(t) == [type |-> "teacher", id |-> t, Is_Admin |-> (t \in Admins)]
StudentUser(s) == [type |-> "student", id |-> s, Is_Admin |-> FALSE]

-----------------------------------------------------------------------------
(* Times of day.  A time string is the sequence of its two-digit fields:   *)
(* "HH:MM" is <<hh, mm>>, "HH:MM:SS" is <<hh, mm, ss>>.  The fields are    *)
(* zero padded and the colons stand at the same places, so comparing two   *)
(* such strings character by character is comparing the field sequences    *)
(* lexicographically, a proper prefix being the smaller.                   *)

validDays == <<"Monday", "Tuesday", "Wednesday", "Thursday", "Friday", "Saturday", "Sunday">>

IsValidDay(d) == \E i \in 1..Len(validDays) : validDays[i] = d

timeRegex(s) == Len(s) \in {2, 3} /\ \A i \in 1..Len(s) : s[i] \in 0..99

RECURSIVE LexLeq(_, _)
\* JavaScript's a <= b on two time strings
LexLeq(a, b) ==
    IF a = <<>> THEN TRUE
    ELSE IF b = <<>> THEN FALSE
    ELSE IF Head(a) # Head(b) THEN Head(a) < Head(b)
    ELSE LexLeq(Tail(a), Tail(b))

\* MySQL's conversion of a time string to a TIME value, in seconds
TimeValue(s) == s[1] * 3600 + s[2] * 60 + (IF Len(s) = 3 THEN s[3] ELSE 0)

SecondsPerDay == 24 * 3600

\* now.toLocaleDateString('en-US', {weekday: 'long'})
dayOfWeek(t) == validDays[((t \div SecondsPerDay) % 7) + 1]

\* now.toTimeString().split(' ')[0], the string HH:MM:SS
currentTime(t) ==
    LET s == t % SecondsPerDay
    IN <<s \div 3600, (s % 3600) \div 60, s % 60>>

-----------------------------------------------------------------------------
(* Requests and responses *)

NoReq == [route |-> "none"]
NoRes == [status |-> 0, error |-> "", id |-> 0]
NoLoc == [step |-> "none"]

Response(status, error) == [status |-> status, error |-> error, id |-> 0]
Created(id) == [status |-> 201, error |-> "", id |-> id]

\* the body of POST /api/timetables
TimetableBody(c, d, day, s, e, r) ==
    [Course_ID |-> c, Div_ID |-> d, Day_Of_Week |-> day,
     Start_Time |-> s, End_Time |-> e, Room_Number |-> r]

PostTimetablesReq(user, body) ==
    [route |-> "POST /api/timetables", user |-> user, body |-> body]

DeleteTimetablesReq(user, timetableId) ==
    [route |-> "DELETE /api/timetables/:timetableId", user |-> user, timetableId |-> timetableId]

\* the body of POST /api/qr/generate is {Course_ID}
QrGenerateReq(user, courseId) ==
    [route |-> "POST /api/qr/generate", user |-> user, Course_ID |-> courseId]

\* the body of POST /api/attendance/mark is {QR_ID}; 0 stands for a missing QR_ID
AttendanceMarkReq(user, qrId) ==
    [route |-> "POST /api/attendance/mark", user |-> user, QR_ID |-> qrId]

-----------------------------------------------------------------------------
(* POST /api/timetables *)

\* the checks made on the body before the store is read
TimetableValidation(b) ==
    IF b.Course_ID = "" \/ b.Div_ID = "" \/ b.Day_Of_Week = ""
       \/ b.Start_Time = <<>> \/ b.End_Time = <<>> \/ b.Room_Number = ""
    THEN "MissingFields"
    ELSE IF ~IsValidDay(b.Day_Of_Week) THEN "InvalidDay"
    ELSE IF ~timeRegex(b.Start_Time) \/ ~timeRegex(b.End_Time) THEN "InvalidTimeFormat"
    ELSE IF LexLeq(b.End_Time, b.Start_Time) THEN "EndNotAfterStart"
    ELSE "ok"

\* a faulty variant: the assignment query forgets the course
teacherCourseAnyCourse(teacherEmail, courseId) ==
    {tc \in teacher_course : tc[1] = teacherEmail}

\* SELECT ... FROM teacher_course WHERE Teacher_Email = ? AND Course_ID = ?
teacherCourse(teacherEmail, courseId) ==
    {tc \in teacher_course : tc[1] = teacherEmail /\ tc[2] = courseId}

\* the overlap test of both conflict queries, on TIME values:
\* NOT (new End_Time <= Start_Time OR new Start_Time >= End_Time)
OverlapsRow(newStart, newEnd, row) ==
    ~(newEnd <= row.Start_Time \/ newStart >= row.End_Time)

\* a faulty variant: touching intervals count as overlapping
roomConflictsClosed(tt, b) ==
    {row \in tt : /\ row.Room_Number = b.Room_Number
                  /\ row.Day_Of_Week = b.Day_Of_Week
                  /\ ~(TimeValue(b.End_Time) < row.Start_Time
                       \/ TimeValue(b.Start_Time) > row.End_Time)}

\* a faulty variant: the two time parameters bound in the other order
roomConflictsSwapped(tt, b) ==
    {row \in tt : /\ row.Room_Number = b.Room_Number
                  /\ row.Day_Of_Week = b.Day_Of_Week
                  /\ OverlapsRow(TimeValue(b.End_Time), TimeValue(b.Start_Time), row)}

\* SELECT Timetable_ID FROM timetable WHERE Room_Number = ? AND Day_Of_Week = ? AND NOT (...)
roomConflicts(tt, b) ==
    {row \in tt : /\ row.Room_Number = b.Room_Number
                  /\ row.Day_Of_Week = b.Day_Of_Week
                  /\ OverlapsRow(TimeValue(b.Start_Time), TimeValue(b.End_Time), row)}

\* a faulty variant: the teacher check also asks for the same room
teacherConflictsSameRoom(tt, teacherEmail, b) ==
    {row \in tt : /\ row.Teacher_Email = teacherEmail
                  /\ row.Room_Number = b.Room_Number
                  /\ row.Day_Of_Week = b.Day_Of_Week
                  /\ OverlapsRow(TimeValue(b.Start_Time), TimeValue(b.End_Time), row)}

\* a faulty variant: the two time parameters bound in the other order
teacherConflictsSwapped(tt, teacherEmail, b) ==
    {row \in tt : /\ row.Teacher_Email = teacherEmail
                  /\ row.Day_Of_Week = b.Day_Of_Week
                  /\ OverlapsRow(TimeValue(b.End_Time), TimeValue(b.Start_Time), row)}

\* SELECT Timetable_ID FROM timetable WHERE Teacher_Email = ? AND Day_Of_Week = ? AND NOT (...)
teacherConflicts(tt, teacherEmail, b) ==
    {row \in tt : /\ row.Teacher_Email = teacherEmail
                  /\ row.Day_Of_Week = b.Day_Of_Week
                  /\ OverlapsRow(TimeValue(b.Start_Time), TimeValue(b.End_Time), row)}

\* the row of INSERT INTO timetable (...) VALUES (...): the TIME columns hold time values
TimetableRow(id, teacherEmail, b) ==
    [Timetable_ID |-> id, Course_ID |-> b.Course_ID, Div_ID |-> b.Div_ID,
     Teacher_Email |-> teacherEmail, Day_Of_Week |-> b.Day_Of_Week,
     Start_Time |-> TimeValue(b.Start_Time), End_Time |-> TimeValue(b.End_Time),
     Room_Number |-> b.Room_Number]

\* the key errors the handler's catch block names: a missing referenced row, and
\* the unique key unique_class_time on (Division, Day, Start Time, Room)
TimetableInsertError(tt, row) ==
    IF row.Course_ID \notin Courses \/ row.Div_ID \notin Divisions
    THEN "ER_NO_REFERENCED_ROW_2"
    ELSE IF \E o \in tt : /\ o.Div_ID = row.Div_ID
                          /\ o.Day_Of_Week = row.Day_Of_Week
                          /\ o.Start_Time = row.Start_Time
                          /\ o.Room_Number = row.Room_Number
    THEN "ER_DUP_ENTRY"
    ELSE "none"

\* the catch block of POST /api/timetables
TimetableCatch(code) ==
    IF code = "ER_NO_REFERENCED_ROW_2" THEN Response(400, "InvalidReference")
    ELSE IF code = "ER_DUP_ENTRY" THEN Response(409, "UniqueConstraint")
    ELSE Response(500, "Failed")

\* requireTeacher
IsTeacher(user) == user.type = "teacher"
\* requireStudent
IsStudent(user) == user.type = "student"

\* the worker's response, and the end of its handler
Respond(p, r) ==
    /\ pc' = [pc EXCEPT ![p] = "done"]
    /\ res' = [res EXCEPT ![p] = r]
    /\ loc' = [loc EXCEPT ![p] = NoLoc]
    /\ UNCHANGED req
    /\ UNCHANGED browser

\* the INSERT of a timetable row and the response that follows it
InsertTimetable(p, teacherEmail, b) ==
    LET Timetable_ID == nextTid + 1
        row == TimetableRow(Timetable_ID, teacherEmail, b)
        err == TimetableInsertError(timetable, row)
    IN /\ nextTid < MaxTid
       /\ nextTid' = nextTid + 1
       /\ IF err = "none"
          THEN timetable' = timetable \cup {row} /\ Respond(p, Created(Timetable_ID))
          ELSE timetable' = timetable /\ Respond(p, TimetableCatch(err))

\* the whole handler, served without another request in between
PostTimetables(p) ==
    /\ pc[p] = "call"
    /\ req[p].route = "POST /api/timetables"
    /\ LET b == req[p].body
           user == req[p].user
           v == TimetableValidation(b)
       IN IF ~IsTeacher(user)
          THEN Respond(p, Response(403, "TeacherRequired")) /\ UNCHANGED <<timetable, nextTid>>
          ELSE IF v # "ok"
          THEN Respond(p, Response(400, v)) /\ UNCHANGED <<timetable, nextTid>>
          ELSE IF teacherCourse(user.id, b.Course_ID) = {}
          THEN Respond(p, Response(403, "NotAssigned")) /\ UNCHANGED <<timetable, nextTid>>
          ELSE IF roomConflicts(timetable, b) # {}
          THEN Respond(p, Response(409, "RoomBooked")) /\ UNCHANGED <<timetable, nextTid>>
          ELSE IF teacherConflicts(timetable, user.id, b) # {}
          THEN Respond(p, Response(409, "InstructorBooked")) /\ UNCHANGED <<timetable, nextTid>>
          ELSE InsertTimetable(p, user.id, b)
    /\ UNCHANGED <<QR_code, attendance, student_devices, now>>

-----------------------------------------------------------------------------
(* DELETE /api/timetables/:timetableId *)

\* a faulty variant: the entry is looked up, and deleted, by its teacher
timetableEntryOfTeacher(tt, timetableId) ==
    {row \in tt : \E e \in tt : e.Timetable_ID = timetableId /\ row.Teacher_Email = e.Teacher_Email}

\* SELECT Teacher_Email FROM timetable WHERE Timetable_ID = ?
timetableEntry(tt, timetableId) == {row \in tt : row.Timetable_ID = timetableId}

\* a faulty variant: the administrator's override is missing
MayDeleteOwnerOnly(user, entry) == entry.Teacher_Email = user.id

\* the owner test: a teacher deletes their own entries, an administrator any
MayDelete(user, entry) == entry.Teacher_Email = user.id \/ user.Is_Admin

\* the whole handler, served without another request in between
DeleteTimetables(p) ==
    /\ pc[p] = "call"
    /\ req[p].route = "DELETE /api/timetables/:timetableId"
    /\ LET user == req[p].user
           entry == timetableEntry(timetable, req[p].timetableId)
       IN IF ~IsTeacher(user)
          THEN Respond(p, Response(403, "TeacherRequired")) /\ UNCHANGED timetable
          ELSE IF entry = {}
          THEN Respond(p, Response(404, "NotFound")) /\ UNCHANGED timetable
          ELSE IF \E e \in entry : ~MayDelete(user, e)
          THEN Respond(p, Response(403, "Forbidden")) /\ UNCHANGED timetable
          ELSE /\ timetable' = timetable \ entry
               /\ Respond(p, Response(200, ""))
    /\ UNCHANGED <<nextTid, QR_code, attendance, student_devices, now>>

-----------------------------------------------------------------------------
(* POST /api/qr/generate *)

\* a faulty variant: the schedule check forgets the course
currentClassCheckAnyCourse(tt, teacherEmail, courseId, t) ==
    {row \in tt : /\ row.Teacher_Email = teacherEmail
                  /\ row.Day_Of_Week = dayOfWeek(t)
                  /\ row.Start_Time <= TimeValue(currentTime(t))
                  /\ row.End_Time > TimeValue(currentTime(t))}

\* SELECT Timetable_ID FROM timetable WHERE Teacher_Email = ? AND Course_ID = ?
\*   AND Day_Of_Week = ? AND Start_Time <= ? AND End_Time > ?
currentClassCheck(tt, teacherEmail, courseId, t) ==
    {row \in tt : /\ row.Teacher_Email = teacherEmail
                  /\ row.Course_ID = courseId
                  /\ row.Day_Of_Week = dayOfWeek(t)
                  /\ row.Start_Time <= TimeValue(currentTime(t))
                  /\ row.End_Time > TimeValue(currentTime(t))}

\* a faulty variant: the QR_ID is not drawn afresh
FreshQrIdReused(qr) == 1

\* uuidv4() for a QR_ID: rows of QR_code are never deleted, so the count is fresh
FreshQrId(qr) == Cardinality(qr) + 1

\* the row of INSERT INTO QR_code (QR_ID, Generated_Time, Course_ID, Teacher_Email)
QrRow(id, generatedTime, courseId, teacherEmail) ==
    [QR_ID |-> id, Generated_Time |-> generatedTime, Course_ID |-> courseId,
     Teacher_Email |-> teacherEmail]

\* the whole handler, served without another request in between
PostQrGenerate(p) ==
    /\ pc[p] = "call"
    /\ req[p].route = "POST /api/qr/generate"
    /\ LET user == req[p].user
           Course_ID == req[p].Course_ID
       IN IF ~IsTeacher(user)
          THEN Respond(p, Response(403, "TeacherRequired")) /\ UNCHANGED QR_code
          ELSE IF Course_ID = ""
          THEN Respond(p, Response(400, "CourseRequired")) /\ UNCHANGED QR_code
          ELSE IF currentClassCheck(timetable, user.id, Course_ID, now) = {}
          THEN Respond(p, Response(403, "NotCurrentlyScheduled")) /\ UNCHANGED QR_code
          ELSE /\ QR_code' = QR_code \cup {QrRow(FreshQrId(QR_code), now, Course_ID, user.id)}
               /\ Respond(p, Created(FreshQrId(QR_code)))
    /\ UNCHANGED <<timetable, nextTid, attendance, student_devices, now>>

-----------------------------------------------------------------------------
(* POST /api/attendance/mark *)

\* a faulty variant: the window is open at its far end
qrCodesStrict(qr, qrId, t) ==
    {q \in qr : q.QR_ID = qrId /\ q.Generated_Time > t - Window}

\* a faulty variant: the code counts only while a slot of its teacher and course is active
qrCodesWhileScheduled(qr, qrId, t) ==
    {q \in qr : /\ q.QR_ID = qrId /\ q.Generated_Time >= t - Window
                 /\ currentClassCheck(timetable, q.Teacher_Email, q.Course_ID, t) # {}}

\* a faulty variant: the query for the live code forgets the QR_ID
qrCodesAnyLive(qr, qrId, t) ==
    {q \in qr : q.Generated_Time >= t - Window}

\* SELECT QR_ID, Course_ID, Generated_Time FROM QR_code
\*   WHERE QR_ID = ? AND Generated_Time >= DATE_SUB(NOW(), INTERVAL 15 MINUTE)
qrCodes(qr, qrId, t) ==
    {q \in qr : q.QR_ID = qrId /\ q.Generated_Time >= t - Window}

\* a faulty variant: the enrolment query forgets the course
studentCourseAnyCourse(studentPRN, courseId) ==
    {sc \in student_course : sc[1] = studentPRN}

\* SELECT PRN FROM student_course WHERE PRN = ? AND Course_ID = ?
studentCourse(studentPRN, courseId) ==
    {sc \in student_course : sc[1] = studentPRN /\ sc[2] = courseId}

\* a faulty variant: the look-up for an earlier record compares the wrong column
existingAttendanceWrongColumn(att, studentPRN, qrId) ==
    {a \in att : a.PRN = studentPRN /\ a.Attendance_ID = qrId}

\* a faulty variant: the look-up for an earlier record forgets the student
existingAttendanceAnyStudent(att, studentPRN, qrId) ==
    {a \in att : a.QR_ID = qrId}

\* SELECT Attendance_ID FROM attendance WHERE PRN = ? AND QR_ID = ?
existingAttendance(att, studentPRN, qrId) ==
    {a \in att : a.PRN = studentPRN /\ a.QR_ID = qrId}

\* uuidv4() for an Attendance_ID: rows of attendance are never deleted
FreshAttendanceId(att) == Cardinality(att) + 1

\* a faulty variant: the row is stored with Status false
AttendanceRowAbsent(id, date, studentPRN, courseId, qrId) ==
    [Attendance_ID |-> id, Date |-> date, PRN |-> studentPRN, Course_ID |-> courseId,
     QR_ID |-> qrId, Status |-> FALSE]

\* the row of INSERT INTO attendance (Attendance_ID, Date, PRN, Course_ID, QR_ID, Status)
AttendanceRow(id, date, studentPRN, courseId, qrId) ==
    [Attendance_ID |-> id, Date |-> date, PRN |-> studentPRN, Course_ID |-> courseId,
     QR_ID |-> qrId, Status |-> TRUE]

\* the store's unique key on attendance (PRN, QR_ID)
AttendanceInsertError(att, row) ==
    IF \E a \in att : a.PRN = row.PRN /\ a.QR_ID = row.QR_ID
    THEN "ER_DUP_ENTRY"
    ELSE "none"

\* a faulty variant: the catch block without its ER_DUP_ENTRY branch
AttendanceCatchNoDup(code) ==
    IF code = "ER_NO_REFERENCED_ROW_2" THEN Response(400, "DataInconsistency")
    ELSE Response(500, "Failed")

\* the catch block of POST /api/attendance/mark
AttendanceCatch(code) ==
    IF code = "ER_DUP_ENTRY" THEN Response(409, "AlreadyMarkedRace")
    ELSE IF code = "ER_NO_REFERENCED_ROW_2" THEN Response(400, "DataInconsistency")
    ELSE Response(500, "Failed")

\* UPDATE student_devices SET Last_Used = ? WHERE Student_PRN = ? ... LIMIT 1
UpdateDevice(devices, studentPRN, attendanceTimestamp) ==
    [devices EXCEPT ![studentPRN] = attendanceTimestamp]

\* a faulty variant: the look-up for an earlier record comes before the query
\* for the live code
PostAttendanceMarkDuplicateFirst(p) ==
    /\ pc[p] = "call"
    /\ req[p].route = "POST /api/attendance/mark"
    /\ LET user == req[p].user
           QR_ID == req[p].QR_ID
           found == qrCodes(QR_code, QR_ID, now)
       IN IF ~IsStudent(user)
          THEN Respond(p, Response(403, "StudentRequired"))
               /\ UNCHANGED <<attendance, student_devices>>
          ELSE IF QR_ID = 0
          THEN Respond(p, Response(400, "QrRequired"))
               /\ UNCHANGED <<attendance, student_devices>>
          ELSE IF existingAttendance(attendance, user.id, QR_ID) # {}
          THEN Respond(p, Response(409, "AlreadyMarked"))
               /\ UNCHANGED <<attendance, student_devices>>
          ELSE IF found = {}
          THEN Respond(p, Response(400, "InvalidOrExpired"))
               /\ UNCHANGED <<attendance, student_devices>>
          ELSE LET courseIdForQR == (CHOOSE q \in found : TRUE).Course_ID
                   row == AttendanceRow(FreshAttendanceId(attendance), now, user.id,
                                        courseIdForQR, QR_ID)
                   err == AttendanceInsertError(attendance, row)
               IN IF studentCourse(user.id, courseIdForQR) = {}
                  THEN Respond(p, Response(403, "NotEnrolled"))
                       /\ UNCHANGED <<attendance, student_devices>>
                  ELSE IF err # "none"
                  THEN Respond(p, AttendanceCatch(err))
                       /\ UNCHANGED <<attendance, student_devices>>
                  ELSE /\ attendance' = attendance \cup {row}
                       /\ student_devices' = UpdateDevice(student_devices, user.id, now)
                       /\ Respond(p, Response(201, ""))
    /\ UNCHANGED <<timetable, nextTid, QR_code, now>>

\* the whole handler, served without another request in between
PostAttendanceMark(p) ==
    /\ pc[p] = "call"
    /\ req[p].route = "POST /api/attendance/mark"
    /\ LET user == req[p].user
           QR_ID == req[p].QR_ID
           found == qrCodes(QR_code, QR_ID, now)
       IN IF ~IsStudent(user)
          THEN Respond(p, Response(403, "StudentRequired"))
               /\ UNCHANGED <<attendance, student_devices>>
          ELSE IF QR_ID = 0
          THEN Respond(p, Response(400, "QrRequired"))
               /\ UNCHANGED <<attendance, student_devices>>
          ELSE IF found = {}
          THEN Respond(p, Response(400, "InvalidOrExpired"))
               /\ UNCHANGED <<attendance, student_devices>>
          ELSE LET courseIdForQR == (CHOOSE q \in found : TRUE).Course_ID
                   row == AttendanceRow(FreshAttendanceId(attendance), now, user.id,
                                        courseIdForQR, QR_ID)
                   err == AttendanceInsertError(attendance, row)
               IN IF studentCourse(user.id, courseIdForQR) = {}
                  THEN Respond(p, Response(403, "NotEnrolled"))
                       /\ UNCHANGED <<attendance, student_devices>>
                  ELSE IF existingAttendance(attendance, user.id, QR_ID) # {}
                  THEN Respond(p, Response(409, "AlreadyMarked"))
                       /\ UNCHANGED <<attendance, student_devices>>
                  ELSE IF err # "none"
                  THEN Respond(p, AttendanceCatch(err))
                       /\ UNCHANGED <<attendance, student_devices>>
                  ELSE /\ attendance' = attendance \cup {row}
                       /\ student_devices' = UpdateDevice(student_devices, user.id, now)
                       /\ Respond(p, Response(201, ""))
    /\ UNCHANGED <<timetable, nextTid, QR_code, now>>

-----------------------------------------------------------------------------
(* The clock *)

\* the instants the model lets requests arrive at: within Skew seconds of the
\* start of the clock and of the end of the validity window of a code made then
Instants == {t \in 0..(Window + 2 * Skew) : t <= Skew \/ t >= Window - Skew}

\* time passes
Tick ==
    /\ \E t \in Instants : t > now /\ now' = t
    /\ UNCHANGED <<timetable, nextTid, QR_code, attendance, student_devices, pc, req, loc, res>>
    /\ UNCHANGED browser

-----------------------------------------------------------------------------
(* The browser before AuthProvider has mounted *)

\* JavaScript's null, and what user?.type yields for it
null == [null |-> TRUE]
undefined == "undefined"

\* initialState of AuthContext.jsx
initialState ==
    [isAuthenticated |-> FALSE, user |-> null, token |-> null, isLoading |-> TRUE]

\* a localStorage without items
NoItems == [k \in {} |-> <<>>]

-----------------------------------------------------------------------------
(* Workers: a request arrives, its handler runs, the response is collected *)

Init ==
    /\ timetable = {}
    /\ nextTid = 0
    /\ QR_code = {}
    /\ attendance = {}
    /\ student_devices = [s \in Students |-> 0]
    /\ now = 0
    /\ pc = [p \in Workers |-> "idle"]
    /\ req = [p \in Workers |-> NoReq]
    /\ loc = [p \in Workers |-> NoLoc]
    /\ res = [p \in Workers |-> NoRes]
    /\ state = initialState
    /\ localStorage = NoItems
    /\ logouts = <<>>

\* requests in flight that may still draw a Timetable_ID
PendingInserts == Cardinality({q \in Workers : pc[q] # "idle" /\ pc[q] # "done"
                                               /\ req[q].route = "POST /api/timetables"})

\* requests in flight that may still insert a QR code
PendingGenerates == Cardinality({q \in Workers : pc[q] # "idle" /\ pc[q] # "done"
                                                 /\ req[q].route = "POST /api/qr/generate"})

\* the bounds of the model, as a guard on the requests it admits
Admitted(r) ==
    /\ r.route = "POST /api/timetables" => nextTid + PendingInserts < MaxTid
    /\ r.route = "POST /api/qr/generate" => Cardinality(QR_code) + PendingGenerates < MaxQr

\* a request arrives at an idle worker
Call(p, r) ==
    /\ pc[p] = "idle"
    /\ Admitted(r)
    /\ pc' = [pc EXCEPT ![p] = "call"]
    /\ req' = [req EXCEPT ![p] = r]
    /\ UNCHANGED <<timetable, nextTid, QR_code, attendance, student_devices, now, loc, res>>
    /\ UNCHANGED browser

\* the response is collected and the worker is free again
Return(p) ==
    /\ pc[p] = "done"
    /\ pc' = [pc EXCEPT ![p] = "idle"]
    /\ req' = [req EXCEPT ![p] = NoReq]
    /\ res' = [res EXCEPT ![p] = NoRes]
    /\ UNCHANGED <<timetable, nextTid, QR_code, attendance, student_devices, now, loc>>
    /\ UNCHANGED browser

\* every worker is idle: the next request is served alone
AllIdle == \A q \in Workers : pc[q] = "idle"

-----------------------------------------------------------------------------
(* The handlers one statement at a time: between two awaited statements any  *)
(* other request's statements may run                                        *)

\* the worker goes on to its next statement
Goto(p, label, locals) ==
    /\ pc' = [pc EXCEPT ![p] = label]
    /\ loc' = [loc EXCEPT ![p] = locals]
    /\ UNCHANGED <<req, res>>
    /\ UNCHANGED browser

\* POST /api/timetables: the validation and the assignment query
ProposeStart(p) ==
    /\ pc[p] = "call"
    /\ req[p].route = "POST /api/timetables"
    /\ LET b == req[p].body
           user == req[p].user
           v == TimetableValidation(b)
       IN IF ~IsTeacher(user) THEN Respond(p, Response(403, "TeacherRequired"))
          ELSE IF v # "ok" THEN Respond(p, Response(400, v))
          ELSE IF teacherCourse(user.id, b.Course_ID) = {}
          THEN Respond(p, Response(403, "NotAssigned"))
          ELSE Goto(p, "roomConflicts", NoLoc)
    /\ UNCHANGED <<timetable, nextTid, QR_code, attendance, student_devices, now>>

\* POST /api/timetables: the room conflict query
ProposeRoomConflicts(p) ==
    /\ pc[p] = "roomConflicts"
    /\ IF roomConflicts(timetable, req[p].body) # {}
       THEN Respond(p, Response(409, "RoomBooked"))
       ELSE Goto(p, "teacherConflicts", NoLoc)
    /\ UNCHANGED <<timetable, nextTid, QR_code, attendance, student_devices, now>>

\* POST /api/timetables: the teacher conflict query
ProposeTeacherConflicts(p) ==
    /\ pc[p] = "teacherConflicts"
    /\ IF teacherConflicts(timetable, req[p].user.id, req[p].body) # {}
       THEN Respond(p, Response(409, "InstructorBooked"))
       ELSE Goto(p, "insertTimetable", NoLoc)
    /\ UNCHANGED <<timetable, nextTid, QR_code, attendance, student_devices, now>>

\* POST /api/timetables: the insert
ProposeInsert(p) ==
    /\ pc[p] = "insertTimetable"
    /\ InsertTimetable(p, req[p].user.id, req[p].body)
    /\ UNCHANGED <<QR_code, attendance, student_devices, now>>

\* POST /api/attendance/mark: the role check and the query for the live code
MarkStart(p) ==
    /\ pc[p] = "call"
    /\ req[p].route = "POST /api/attendance/mark"
    /\ LET user == req[p].user
           found == qrCodes(QR_code, req[p].QR_ID, now)
       IN IF ~IsStudent(user) THEN Respond(p, Response(403, "StudentRequired"))
          ELSE IF req[p].QR_ID = 0 THEN Respond(p, Response(400, "QrRequired"))
          ELSE IF found = {} THEN Respond(p, Response(400, "InvalidOrExpired"))
          ELSE Goto(p, "studentCourse",
                    [step |-> "mark", courseIdForQR |-> (CHOOSE q \in found : TRUE).Course_ID])
    /\ UNCHANGED <<timetable, nextTid, QR_code, attendance, student_devices, now>>

\* POST /api/attendance/mark: the enrolment query
MarkStudentCourse(p) ==
    /\ pc[p] = "studentCourse"
    /\ IF studentCourse(req[p].user.id, loc[p].courseIdForQR) = {}
       THEN Respond(p, Response(403, "NotEnrolled"))
       ELSE Goto(p, "existingAttendance", loc[p])
    /\ UNCHANGED <<timetable, nextTid, QR_code, attendance, student_devices, now>>

\* POST /api/attendance/mark: the look-up for an earlier record
MarkExistingAttendance(p) ==
    /\ pc[p] = "existingAttendance"
    /\ IF existingAttendance(attendance, req[p].user.id, req[p].QR_ID) # {}
       THEN Respond(p, Response(409, "AlreadyMarked"))
       ELSE Goto(p, "insertAttendance", loc[p])
    /\ UNCHANGED <<timetable, nextTid, QR_code, attendance, student_devices, now>>

\* POST /api/attendance/mark: the timestamp and the insert
MarkInsert(p) ==
    /\ pc[p] = "insertAttendance"
    /\ LET row == AttendanceRow(FreshAttendanceId(attendance), now, req[p].user.id,
                                loc[p].courseIdForQR, req[p].QR_ID)
           err == AttendanceInsertError(attendance, row)
       IN IF err # "none"
          THEN Respond(p, AttendanceCatch(err)) /\ UNCHANGED attendance
          ELSE /\ attendance' = attendance \cup {row}
               /\ Goto(p, "updateDevice",
                       [step |-> "mark", courseIdForQR |-> loc[p].courseIdForQR,
                        attendanceTimestamp |-> now])
    /\ UNCHANGED <<timetable, nextTid, QR_code, student_devices, now>>

\* POST /api/attendance/mark: the device update and the response
MarkUpdateDevice(p) ==
    /\ pc[p] = "updateDevice"
    /\ student_devices' = UpdateDevice(student_devices, req[p].user.id, loc[p].attendanceTimestamp)
    /\ Respond(p, Response(201, ""))
    /\ UNCHANGED <<timetable, nextTid, QR_code, attendance, now>>

-----------------------------------------------------------------------------
(* The timetable, its requests served one after another *)

T0000 == <<0, 0>>
T0015 == <<0, 15>>
T001500 == <<0, 15, 0>>
T0030 == <<0, 30>>

TimeInputs == {T0000, T0015, T001500, T0030}
DayInputs == {"Monday", "Tuesday"}

TimetableBodies ==
    {TimetableBody(c, "d1", day, s, e, r) :
        c \in Courses, day \in DayInputs, s \in TimeInputs, e \in TimeInputs, r \in Rooms}

TimetableCalls ==
    {PostTimetablesReq(TeacherUser(t), b) : t \in Teachers, b \in TimetableBodies}
    \cup {DeleteTimetablesReq(TeacherUser(t), id) : t \in Teachers, id \in 1..MaxTid}

CallTimetable == AllIdle /\ \E r \in TimetableCalls : Call("w1", r)
ServePostTimetables == PostTimetables("w1")
ServeDeleteTimetables == DeleteTimetables("w1")
ReturnTimetable == Return("w1")

NextTimetable ==
    \/ CallTimetable
    \/ ServePostTimetables
    \/ ServeDeleteTimetables
    \/ ReturnTimetable

SpecTimetable == Init /\ [][NextTimetable]_vars

-----------------------------------------------------------------------------
(* GET /api/teachers/my-current-classes: the slots active now *)

\* a faulty variant: a slot is still active at its end time
currentClassesClosedEnd(tt, teacherEmail, day, time) ==
    {row \in tt : /\ row.Teacher_Email = teacherEmail
                  /\ row.Day_Of_Week = day
                  /\ row.Start_Time <= TimeValue(time)
                  /\ row.End_Time >= TimeValue(time)}

\* SELECT ... FROM timetable tt WHERE tt.Teacher_Email = ? AND tt.Day_Of_Week = ?
\*   AND tt.Start_Time <= ? AND tt.End_Time > ?
currentClasses(tt, teacherEmail, day, time) ==
    {row \in tt : /\ row.Teacher_Email = teacherEmail
                  /\ row.Day_Of_Week = day
                  /\ row.Start_Time <= TimeValue(time)
                  /\ row.End_Time > TimeValue(time)}

-----------------------------------------------------------------------------
(* Properties of the timetable *)

\* the half-open rule: [s1, e1) and [s2, e2) overlap
HalfOpenOverlap(s1, e1, s2, e2) == ~(e1 <= s2 \/ e2 <= s1)

\* a proposal that passes the role check, the validation and the assignment check
ValidProposal(r) ==
    /\ r.route = "POST /api/timetables"
    /\ IsTeacher(r.user)
    /\ TimetableValidation(r.body) = "ok"
    /\ <<r.user.id, r.body.Course_ID>> \in teacher_course

\* worker p's handler of POST /api/timetables runs in this step, on a valid proposal
ProposalServed(p) == pc[p] = "call" /\ pc'[p] = "done" /\ ValidProposal(req[p])

\* the stored slots in the proposal's room and day that overlap it
RoomOverlaps(r) ==
    {row \in timetable :
        /\ row.Room_Number = r.body.Room_Number
        /\ row.Day_Of_Week = r.body.Day_Of_Week
        /\ HalfOpenOverlap(TimeValue(r.body.Start_Time), TimeValue(r.body.End_Time),
                           row.Start_Time, row.End_Time)}

\* the stored slots of the proposer on the proposal's day that overlap it
InstructorOverlaps(r) ==
    {row \in timetable :
        /\ row.Teacher_Email = r.user.id
        /\ row.Day_Of_Week = r.body.Day_Of_Week
        /\ HalfOpenOverlap(TimeValue(r.body.Start_Time), TimeValue(r.body.End_Time),
                           row.Start_Time, row.End_Time)}

\* C7: with the requests served one after another, no two distinct stored slots
\* of the same room and day have overlapping intervals
C7_NoRoomOverlap ==
    \A a \in timetable : \A b \in timetable :
        (a.Timetable_ID # b.Timetable_ID /\ a.Room_Number = b.Room_Number
         /\ a.Day_Of_Week = b.Day_Of_Week)
        => ~HalfOpenOverlap(a.Start_Time, a.End_Time, b.Start_Time, b.End_Time)

\* two slots of different teachers are stored back to back in one room on one day
C7_Witness ==
    \E a \in timetable : \E b \in timetable :
        /\ a.Timetable_ID # b.Timetable_ID
        /\ a.Teacher_Email # b.Teacher_Email
        /\ a.Room_Number = b.Room_Number
        /\ a.Day_Of_Week = b.Day_Of_Week
        /\ a.End_Time = b.Start_Time

\* the instants at which the number of a teacher's active slots can rise: the
\* stored start times (between two of them the active set only loses slots)
ProbeTimes == {row.Start_Time : row \in timetable} \cup {0, Window - 1, Window}

\* C8: with the requests served one after another, no two stored slots of one
\* teacher on one day overlap, and at most one slot of a teacher is active at any instant
C8_AtMostOneActive ==
    /\ \A a \in timetable : \A b \in timetable :
          (a.Timetable_ID # b.Timetable_ID /\ a.Teacher_Email = b.Teacher_Email
           /\ a.Day_Of_Week = b.Day_Of_Week)
          => ~HalfOpenOverlap(a.Start_Time, a.End_Time, b.Start_Time, b.End_Time)
    /\ \A t \in Teachers : \A d \in DayInputs : \A s \in ProbeTimes :
          Cardinality(currentClasses(timetable, t, d, currentTime(s))) <= 1

\* a teacher has two slots on one day, in different rooms, and one of them is active
C8_Witness ==
    \E a \in timetable : \E b \in timetable :
        /\ a.Timetable_ID # b.Timetable_ID
        /\ a.Teacher_Email = b.Teacher_Email
        /\ a.Day_Of_Week = b.Day_Of_Week
        /\ a.Room_Number # b.Room_Number
        /\ currentClasses(timetable, a.Teacher_Email, a.Day_Of_Week, currentTime(a.Start_Time)) = {a}

\* C9: a valid proposal is answered RoomBooked exactly when a stored slot of its
\* room and day overlaps it under the half-open rule, and then nothing is stored
C9_RoomBookedExactly ==
    [][\A p \in Workers : ProposalServed(p) =>
          /\ (res'[p] = Response(409, "RoomBooked")) <=> (RoomOverlaps(req[p]) # {})
          /\ (RoomOverlaps(req[p]) # {}) => timetable' = timetable]_vars

\* a proposal was admitted next to a stored slot it touches, in the same room and day
C9_Witness ==
    \E p \in Workers :
        /\ pc[p] = "done" /\ req[p].route = "POST /api/timetables" /\ res[p].status = 201
        /\ \E new \in timetable : \E old \in timetable :
              /\ new.Timetable_ID = res[p].id
              /\ old.Timetable_ID # new.Timetable_ID
              /\ old.Room_Number = new.Room_Number
              /\ old.Day_Of_Week = new.Day_Of_Week
              /\ (old.End_Time = new.Start_Time \/ new.End_Time = old.Start_Time)

\* C10: a valid proposal with no room conflict is answered InstructorBooked exactly
\* when a stored slot of the proposer on that day overlaps it, in whatever room;
\* with both conflicts the answer is RoomBooked
C10_InstructorBookedExactly ==
    [][\A p \in Workers : ProposalServed(p) =>
          /\ (RoomOverlaps(req[p]) = {}) =>
                ((res'[p] = Response(409, "InstructorBooked")) <=> (InstructorOverlaps(req[p]) # {}))
          /\ (RoomOverlaps(req[p]) # {} /\ InstructorOverlaps(req[p]) # {}) =>
                res'[p] = Response(409, "RoomBooked")
          /\ (res'[p] = Response(409, "InstructorBooked")) => timetable' = timetable]_vars

\* a proposal was answered InstructorBooked because of a slot in another room
C10_Witness ==
    \E p \in Workers :
        /\ pc[p] = "done" /\ req[p].route = "POST /api/timetables"
        /\ res[p] = Response(409, "InstructorBooked")
        /\ \E row \in InstructorOverlaps(req[p]) : row.Room_Number # req[p].body.Room_Number

-----------------------------------------------------------------------------
(* Code generation: slots are proposed and codes generated, one request      *)
(* after another, while time passes                                          *)

MintSlotBodies ==
    {TimetableBody("c1", "d1", "Monday", T0000, T0015, "r1"),
     TimetableBody("c2", "d1", "Monday", T0015, T0030, "r1"),
     TimetableBody("c1", "d1", "Tuesday", T0000, T0015, "r1")}

MintCalls ==
    {PostTimetablesReq(TeacherUser(t), b) : t \in Teachers, b \in MintSlotBodies}
    \cup {QrGenerateReq(TeacherUser(t), c) : t \in Teachers, c \in Courses}
    \cup {QrGenerateReq(TeacherUser("t1"), ""), QrGenerateReq(StudentUser("s1"), "c1")}

CallMint == AllIdle /\ \E r \in MintCalls : Call("w1", r)
ServeMintSlot == PostTimetables("w1")
ServeMint == PostQrGenerate("w1")
ReturnMint == Return("w1")

NextMint ==
    \/ CallMint
    \/ ServeMintSlot
    \/ ServeMint
    \/ ReturnMint
    \/ Tick

SpecMint == Init /\ [][NextMint]_vars

-----------------------------------------------------------------------------
(* Redemption: teacher t1 proposes slots and generates codes, students       *)
(* redeem them, one request after another, while time passes                 *)

RedeemSlotBodies ==
    {TimetableBody("c1", "d1", "Monday", T0000, T0015, "r1")}

\* a student enrolled in the course of the slot and one who is not
RedeemStudents == {"s1", "s2"}

\* QR_ID 0 is a missing one; MaxQr + 1 is never generated
QrIdInputs == 0..(MaxQr + 1)

RedeemCalls ==
    {PostTimetablesReq(TeacherUser("t1"), b) : b \in RedeemSlotBodies}
    \cup {QrGenerateReq(TeacherUser("t1"), c) : c \in Courses}
    \cup {AttendanceMarkReq(StudentUser(st), q) : st \in RedeemStudents, q \in QrIdInputs}
    \cup {AttendanceMarkReq(TeacherUser("t1"), 1)}

CallRedeem == AllIdle /\ \E r \in RedeemCalls : Call("w1", r)
ServeRedeemSlot == PostTimetables("w1")
ServeRedeemMint == PostQrGenerate("w1")
ServeRedeem == PostAttendanceMark("w1")
ReturnRedeem == Return("w1")

NextRedeem ==
    \/ CallRedeem
    \/ ServeRedeemSlot
    \/ ServeRedeemMint
    \/ ServeRedeem
    \/ ReturnRedeem
    \/ Tick

SpecRedeem == Init /\ [][NextRedeem]_vars

-----------------------------------------------------------------------------
(* Properties of code generation and redemption, one request after another *)

\* worker p's handler runs in this step
Served(p, route) == pc[p] = "call" /\ pc'[p] = "done" /\ req[p].route = route

\* the stored sessions with this token
SessionsOf(qrId) == {q \in QR_code : q.QR_ID = qrId}

\* the stored sessions with this token whose window holds the present instant
LiveSessionsOf(qrId) == {q \in SessionsOf(qrId) : now - q.Generated_Time <= Window}

\* the records of this student for this token
RecordsOf(att, studentPRN, qrId) == {a \in att : a.PRN = studentPRN /\ a.QR_ID = qrId}

\* a student's redemption request that carries a token
StudentRedeems(r) ==
    r.route = "POST /api/attendance/mark" /\ r.user.type = "student" /\ r.QR_ID # 0

\* at most one record per student and token
AtMostOneRecord ==
    \A a \in attendance : \A b \in attendance :
        (a.PRN = b.PRN /\ a.QR_ID = b.QR_ID) => a = b

\* C2: redemptions served one after another leave at most one record per student
\* and token; a student who has a record for a token and redeems it again inside
\* the window is answered 409 by the look-up for an earlier record, and no record is added
C2_RedeemOnce ==
    /\ []AtMostOneRecord
    /\ [][\A p \in Workers :
            (/\ Served(p, "POST /api/attendance/mark")
             /\ StudentRedeems(req[p])
             /\ LiveSessionsOf(req[p].QR_ID) # {}
             /\ RecordsOf(attendance, req[p].user.id, req[p].QR_ID) # {})
            => (res'[p] = Response(409, "AlreadyMarked") /\ attendance' = attendance)]_vars

\* a second redemption of the second code was answered AlreadyMarked
C2_Witness ==
    \E p \in Workers :
        /\ pc[p] = "done" /\ StudentRedeems(req[p])
        /\ req[p].QR_ID = 2
        /\ res[p] = Response(409, "AlreadyMarked")
        /\ Cardinality(RecordsOf(attendance, req[p].user.id, req[p].QR_ID)) = 1

\* C3: an enrolled student with no record redeems successfully whenever
\* now - Generated_Time <= 15 minutes; whenever the token is unknown or
\* now - Generated_Time > 15 minutes the answer is InvalidOrExpired and no record is made
C3_ExpiryBoundary ==
    [][\A p \in Workers :
          (Served(p, "POST /api/attendance/mark") /\ StudentRedeems(req[p])) =>
             LET prn == req[p].user.id
                 qrId == req[p].QR_ID
             IN /\ (\E q \in SessionsOf(qrId) :
                        /\ now - q.Generated_Time <= Window
                        /\ <<prn, q.Course_ID>> \in student_course
                        /\ RecordsOf(attendance, prn, qrId) = {})
                   => /\ res'[p].status = 201
                      /\ \E a \in attendance' :
                            /\ a.PRN = prn /\ a.QR_ID = qrId /\ a.Date = now
                            /\ attendance' = attendance \cup {a}
                /\ (SessionsOf(qrId) = {} \/ \E q \in SessionsOf(qrId) : now - q.Generated_Time > Window)
                   => /\ res'[p] = Response(400, "InvalidOrExpired")
                      /\ attendance' = attendance]_vars

\* a code was redeemed exactly 15 minutes after it was made, and one second
\* later the same code is answered InvalidOrExpired
C3_Witness ==
    \E p \in Workers : \E q \in QR_code : \E a \in attendance :
        /\ pc[p] = "done" /\ StudentRedeems(req[p])
        /\ req[p].QR_ID = q.QR_ID
        /\ res[p] = Response(400, "InvalidOrExpired")
        /\ now = q.Generated_Time + Window + 1
        /\ a.QR_ID = q.QR_ID
        /\ a.Date = q.Generated_Time + Window

\* every record's student is enrolled in the course of the record's session
RecordsAreEnrolled ==
    \A a \in attendance : \E q \in SessionsOf(a.QR_ID) : <<a.PRN, q.Course_ID>> \in student_course

\* C4: a student not enrolled in the session's course who redeems a valid,
\* unexpired token is answered NotEnrolled and no record is made; no record
\* exists for a student not enrolled in its session's course
C4_EnrollmentGate ==
    /\ []RecordsAreEnrolled
    /\ [][\A p \in Workers :
            (/\ Served(p, "POST /api/attendance/mark")
             /\ StudentRedeems(req[p])
             /\ \E q \in LiveSessionsOf(req[p].QR_ID) :
                    <<req[p].user.id, q.Course_ID>> \notin student_course)
            => (res'[p] = Response(403, "NotEnrolled") /\ attendance' = attendance)]_vars

\* a student not enrolled in the course was answered NotEnrolled on a live code
\* that an enrolled student has redeemed
C4_Witness ==
    \E p \in Workers :
        /\ pc[p] = "done" /\ StudentRedeems(req[p])
        /\ res[p] = Response(403, "NotEnrolled")
        /\ LiveSessionsOf(req[p].QR_ID) # {}
        /\ \E a \in attendance : a.QR_ID = req[p].QR_ID

\* the stored slots of this teacher and course whose day is today and whose
\* interval holds the present time of day
MatchingSlots(teacherEmail, courseId) ==
    {row \in timetable :
        /\ row.Teacher_Email = teacherEmail
        /\ row.Course_ID = courseId
        /\ row.Day_Of_Week = dayOfWeek(now)
        /\ row.Start_Time <= now % SecondsPerDay
        /\ now % SecondsPerDay < row.End_Time}

\* C5: a teacher's request to generate a code for a course stores exactly one new
\* session exactly when a stored slot of that teacher and course is active now,
\* that is when the teacher's current classes hold a slot of that course;
\* otherwise it is answered NotCurrentlyScheduled and nothing is stored
C5_MintWhenScheduled ==
    [][\A p \in Workers :
          (/\ Served(p, "POST /api/qr/generate")
           /\ req[p].user.type = "teacher"
           /\ req[p].Course_ID # "") =>
             LET t == req[p].user.id
                 c == req[p].Course_ID
                 active == currentClasses(timetable, t, dayOfWeek(now), currentTime(now))
                 scheduled == MatchingSlots(t, c) # {}
             IN /\ scheduled <=> (\E row \in active : row.Course_ID = c)
                /\ scheduled =>
                      /\ res'[p].status = 201
                      /\ res'[p].id \notin {q.QR_ID : q \in QR_code}
                      /\ \E new \in QR_code' :
                            /\ new.QR_ID = res'[p].id
                            /\ new.Course_ID = c /\ new.Teacher_Email = t
                            /\ QR_code' = QR_code \cup {new}
                /\ ~scheduled =>
                      /\ res'[p] = Response(403, "NotCurrentlyScheduled")
                      /\ QR_code' = QR_code]_vars

\* a teacher whose active slot is for another course was refused a code
C5_Witness ==
    \E p \in Workers :
        /\ pc[p] = "done" /\ req[p].route = "POST /api/qr/generate"
        /\ res[p] = Response(403, "NotCurrentlyScheduled")
        /\ \E row \in currentClasses(timetable, req[p].user.id, dayOfWeek(now), currentTime(now)) :
              row.Course_ID # req[p].Course_ID
        /\ QR_code # {}

-----------------------------------------------------------------------------
(* Proposals in flight together: each worker serves one statement at a time *)

RaceSlotBodies ==
    {TimetableBody("c1", d, "Monday", se[1], se[2], r) :
        d \in Divisions, r \in Rooms,
        se \in {<<T0000, T0015>>, <<T0000, T0030>>, <<T0015, T0030>>}}

RaceSlotCalls == {PostTimetablesReq(TeacherUser(t), b) : t \in Teachers, b \in RaceSlotBodies}

CallProposeRace == \E p \in Workers : \E r \in RaceSlotCalls : Call(p, r)
StepProposeStart == \E p \in Workers : ProposeStart(p)
StepProposeRoomConflicts == \E p \in Workers : ProposeRoomConflicts(p)
StepProposeTeacherConflicts == \E p \in Workers : ProposeTeacherConflicts(p)
StepProposeInsert == \E p \in Workers : ProposeInsert(p)
ReturnProposeRace == \E p \in Workers : Return(p)

NextProposeRace ==
    \/ CallProposeRace
    \/ StepProposeStart
    \/ StepProposeRoomConflicts
    \/ StepProposeTeacherConflicts
    \/ StepProposeInsert
    \/ ReturnProposeRace

SpecProposeRace == Init /\ [][NextProposeRace]_vars

-----------------------------------------------------------------------------
(* Redemptions in flight together: a slot and its codes are set up by        *)
(* requests served alone, then each worker serves one redemption, one        *)
(* statement at a time                                                       *)

RaceSetupCalls ==
    {PostTimetablesReq(TeacherUser("t1"), b) : b \in RedeemSlotBodies}
    \cup {QrGenerateReq(TeacherUser("t1"), "c1")}

RaceMarkCalls == {AttendanceMarkReq(StudentUser(st), q) : st \in Students, q \in 1..MaxQr}

CallRaceSetup == AllIdle /\ \E r \in RaceSetupCalls : Call("w1", r)
ServeRaceSlot == PostTimetables("w1")
ServeRaceMint == PostQrGenerate("w1")
ReturnRaceSetup == req["w1"].route # "POST /api/attendance/mark" /\ Return("w1")
CallMarkRace == \E p \in Workers : \E r \in RaceMarkCalls : Call(p, r)
StepMarkStart == \E p \in Workers : MarkStart(p)
StepMarkStudentCourse == \E p \in Workers : MarkStudentCourse(p)
StepMarkExistingAttendance == \E p \in Workers : MarkExistingAttendance(p)
StepMarkInsert == \E p \in Workers : MarkInsert(p)
StepMarkUpdateDevice == \E p \in Workers : MarkUpdateDevice(p)

NextRedeemRace ==
    \/ CallRaceSetup
    \/ ServeRaceSlot
    \/ ServeRaceMint
    \/ ReturnRaceSetup
    \/ CallMarkRace
    \/ StepMarkStart
    \/ StepMarkStudentCourse
    \/ StepMarkExistingAttendance
    \/ StepMarkInsert
    \/ StepMarkUpdateDevice
    \/ Tick

SpecRedeemRace == Init /\ [][NextRedeemRace]_vars

-----------------------------------------------------------------------------
(* Properties of requests in flight together *)

\* worker p has answered a student's redemption that passed the checks of the
\* code and of the enrolment
Redeemed(p) ==
    /\ pc[p] = "done"
    /\ StudentRedeems(req[p])
    /\ res[p] # Response(400, "InvalidOrExpired")
    /\ res[p] # Response(403, "NotEnrolled")

\* C1: of two redemptions in flight together for one student and one valid
\* token, exactly one succeeds, the other is answered 409 AlreadyMarked, and
\* the ledger holds exactly one record for the pair
C1_OneOfTwoRedeems ==
    \A p \in Workers : \A q \in Workers :
        (/\ p # q
         /\ Redeemed(p) /\ Redeemed(q)
         /\ req[p].user = req[q].user
         /\ req[p].QR_ID = req[q].QR_ID)
        => /\ {res[p].status, res[q].status} = {201, 409}
           /\ Cardinality(RecordsOf(attendance, req[p].user.id, req[p].QR_ID)) = 1

\* both redemptions passed the look-up for an earlier record before either
\* inserted: the insert of the second was refused by the store
C1_Witness ==
    \E p \in Workers : \E q \in Workers :
        /\ p # q
        /\ Redeemed(p) /\ Redeemed(q)
        /\ req[p].user = req[q].user
        /\ req[p].QR_ID = req[q].QR_ID
        /\ res[p].status = 201
        /\ res[q] = Response(409, "AlreadyMarkedRace")

\* C6: with proposals in flight together, no two distinct stored slots of one
\* room and day, or of one teacher and day, overlap
C6_NoOverlapUnderRace ==
    \A a \in timetable : \A b \in timetable :
        (/\ a.Timetable_ID # b.Timetable_ID
         /\ a.Day_Of_Week = b.Day_Of_Week
         /\ (a.Room_Number = b.Room_Number \/ a.Teacher_Email = b.Teacher_Email))
        => ~HalfOpenOverlap(a.Start_Time, a.End_Time, b.Start_Time, b.End_Time)

-----------------------------------------------------------------------------
(* GET /api/qr/:qrId/display *)

QrDisplayReq(user, qrId) ==
    [route |-> "GET /api/qr/:qrId/display", user |-> user, QR_ID |-> qrId]

\* SELECT QR_ID, Course_ID, Generated_Time, Teacher_Email FROM QR_code WHERE QR_ID = ?
qrCodeInfo(qr, qrId) == {q \in qr : q.QR_ID = qrId}

\* a faulty variant: every teacher assigned to the course may display the code
MayDisplayAssigned(user, q) ==
    q.Teacher_Email = user.id \/ user.Is_Admin \/ <<user.id, q.Course_ID>> \in teacher_course

\* the owner test: a teacher displays the codes they generated, an administrator any
MayDisplay(user, q) == q.Teacher_Email = user.id \/ user.Is_Admin

\* a faulty variant: the 15 * 60000 milliseconds are added to a time in seconds
expirationTimeWrongUnit(generatedTime) == generatedTime + ValidityMinutes * 60000

\* new Date(generatedTime.getTime() + 15 * 60000)
expirationTime(generatedTime) == generatedTime + Window

\* the body of the 200 response
QrView(q) ==
    [status |-> 200, error |-> "", id |-> q.QR_ID, Course_ID |-> q.Course_ID,
     Generated_Time |-> q.Generated_Time, Expires_At |-> expirationTime(q.Generated_Time)]

\* the whole handler: it issues one statement
GetQrDisplay(p) ==
    /\ pc[p] = "call"
    /\ req[p].route = "GET /api/qr/:qrId/display"
    /\ LET user == req[p].user
           found == qrCodeInfo(QR_code, req[p].QR_ID)
       IN IF ~IsTeacher(user) THEN Respond(p, Response(403, "TeacherRequired"))
          ELSE IF found = {} THEN Respond(p, Response(404, "NotFound"))
          ELSE LET q == CHOOSE q \in found : TRUE
               IN IF ~MayDisplay(user, q) THEN Respond(p, Response(403, "Forbidden"))
                  ELSE IF now > expirationTime(q.Generated_Time)
                  THEN Respond(p, Response(410, "Expired"))
                  ELSE Respond(p, QrView(q))
    /\ UNCHANGED <<timetable, nextTid, QR_code, attendance, student_devices, now>>

-----------------------------------------------------------------------------
(* GET /api/teachers/my-current-classes *)

MyCurrentClassesReq(user) ==
    [route |-> "GET /api/teachers/my-current-classes", user |-> user]

\* the columns the query selects from timetable
CurrentClassView(row) ==
    [Timetable_ID |-> row.Timetable_ID, Course_ID |-> row.Course_ID, Div_ID |-> row.Div_ID,
     Teacher_Email |-> row.Teacher_Email, Room_Number |-> row.Room_Number,
     Start_Time |-> row.Start_Time, End_Time |-> row.End_Time]

\* the whole handler: it issues one statement
GetMyCurrentClasses(p) ==
    /\ pc[p] = "call"
    /\ req[p].route = "GET /api/teachers/my-current-classes"
    /\ LET user == req[p].user
           found == currentClasses(timetable, user.id, dayOfWeek(now), currentTime(now))
       IN IF ~IsTeacher(user) THEN Respond(p, Response(403, "TeacherRequired"))
          ELSE Respond(p, [status |-> 200, error |-> "", id |-> 0,
                           rows |-> {CurrentClassView(row) : row \in found}])
    /\ UNCHANGED <<timetable, nextTid, QR_code, attendance, student_devices, now>>

-----------------------------------------------------------------------------
(* POST /api/qr/generate and DELETE /api/timetables/:timetableId, one        *)
(* statement at a time                                                       *)

\* POST /api/qr/generate: the role check, the clock and the schedule query
MintStart(p) ==
    /\ pc[p] = "call"
    /\ req[p].route = "POST /api/qr/generate"
    /\ LET user == req[p].user
           Course_ID == req[p].Course_ID
       IN IF ~IsTeacher(user) THEN Respond(p, Response(403, "TeacherRequired"))
          ELSE IF Course_ID = "" THEN Respond(p, Response(400, "CourseRequired"))
          ELSE IF currentClassCheck(timetable, user.id, Course_ID, now) = {}
          THEN Respond(p, Response(403, "NotCurrentlyScheduled"))
          ELSE Goto(p, "insertQr", NoLoc)
    /\ UNCHANGED <<timetable, nextTid, QR_code, attendance, student_devices, now>>

\* POST /api/qr/generate: the QR_ID, the generation time and the insert
MintInsert(p) ==
    /\ pc[p] = "insertQr"
    /\ QR_code' = QR_code \cup {QrRow(FreshQrId(QR_code), now, req[p].Course_ID, req[p].user.id)}
    /\ Respond(p, Created(FreshQrId(QR_code)))
    /\ UNCHANGED <<timetable, nextTid, attendance, student_devices, now>>

\* DELETE /api/timetables/:timetableId: the role check and the look-up of the entry
DeleteStart(p) ==
    /\ pc[p] = "call"
    /\ req[p].route = "DELETE /api/timetables/:timetableId"
    /\ LET user == req[p].user
           entry == timetableEntry(timetable, req[p].timetableId)
       IN IF ~IsTeacher(user) THEN Respond(p, Response(403, "TeacherRequired"))
          ELSE IF entry = {} THEN Respond(p, Response(404, "NotFound"))
          ELSE IF \E e \in entry : ~MayDelete(user, e)
          THEN Respond(p, Response(403, "Forbidden"))
          ELSE Goto(p, "deleteTimetable", NoLoc)
    /\ UNCHANGED <<timetable, nextTid, QR_code, attendance, student_devices, now>>

\* a faulty variant: the result of the DELETE is not looked at
DeleteDeleteUnchecked(p) ==
    /\ pc[p] = "deleteTimetable"
    /\ timetable' = timetable \ timetableEntry(timetable, req[p].timetableId)
    /\ Respond(p, Response(200, ""))
    /\ UNCHANGED <<nextTid, QR_code, attendance, student_devices, now>>

\* DELETE /api/timetables/:timetableId: the DELETE statement; affectedRows is 0
\* when another request removed the entry in between
DeleteDelete(p) ==
    /\ pc[p] = "deleteTimetable"
    /\ LET entry == timetableEntry(timetable, req[p].timetableId)
       IN IF entry = {}
          THEN Respond(p, Response(404, "NotFoundOnDelete")) /\ UNCHANGED timetable
          ELSE timetable' = timetable \ entry /\ Respond(p, Response(200, ""))
    /\ UNCHANGED <<nextTid, QR_code, attendance, student_devices, now>>

-----------------------------------------------------------------------------
(* A slot deleted while codes are generated, redeemed and displayed: worker  *)
(* w2 proposes the slot and deletes it, worker w1 generates, redeems and     *)
(* displays, each one statement at a time, while time passes                 *)

MintRaceSlotCalls == {PostTimetablesReq(TeacherUser("t1"), b) : b \in RedeemSlotBodies}

MintRaceDeleteCalls == {DeleteTimetablesReq(TeacherUser("t1"), id) : id \in 1..MaxTid}

MintRaceSessionCalls ==
    {QrGenerateReq(TeacherUser("t1"), "c1")}
    \cup {AttendanceMarkReq(StudentUser("s1"), q) : q \in 1..MaxQr}
    \cup {QrDisplayReq(TeacherUser("t1"), q) : q \in 1..MaxQr}

CallMintRaceSlot == AllIdle /\ \E r \in MintRaceSlotCalls : Call("w2", r)
ServeMintRaceSlot == PostTimetables("w2")
CallMintRaceDelete == \E r \in MintRaceDeleteCalls : Call("w2", r)
StepDeleteStart == DeleteStart("w2")
StepDeleteDelete == DeleteDelete("w2")
CallMintRaceSession == pc["w2"] # "call" /\ \E r \in MintRaceSessionCalls : Call("w1", r)
StepMintStart == MintStart("w1")
StepMintInsert == MintInsert("w1")
StepMintRaceMarkStart == MarkStart("w1")
StepMintRaceMarkStudentCourse == MarkStudentCourse("w1")
StepMintRaceMarkExistingAttendance == MarkExistingAttendance("w1")
StepMintRaceMarkInsert == MarkInsert("w1")
StepMintRaceMarkUpdateDevice == MarkUpdateDevice("w1")
ServeMintRaceDisplay == GetQrDisplay("w1")
ReturnMintRace == \E p \in Workers : Return(p)

NextMintRace ==
    \/ CallMintRaceSlot
    \/ ServeMintRaceSlot
    \/ CallMintRaceDelete
    \/ StepDeleteStart
    \/ StepDeleteDelete
    \/ CallMintRaceSession
    \/ StepMintStart
    \/ StepMintInsert
    \/ StepMintRaceMarkStart
    \/ StepMintRaceMarkStudentCourse
    \/ StepMintRaceMarkExistingAttendance
    \/ StepMintRaceMarkInsert
    \/ StepMintRaceMarkUpdateDevice
    \/ ServeMintRaceDisplay
    \/ ReturnMintRace
    \/ Tick

SpecMintRace == Init /\ [][NextMintRace]_vars

\* the stored slots of a session's teacher and course that are active now
SlotsOfSession(q) == MatchingSlots(q.Teacher_Email, q.Course_ID)

\* worker p's redemption moves from this statement in this step
RedeemStep(p, label) == pc[p] = label /\ pc'[p] # label /\ StudentRedeems(req[p])

\* C11: whatever the timetable holds, a redemption passes the check of the code
\* exactly when the code is stored and now - Generated_Time <= 15 minutes, the
\* enrolled student's redemption then goes through to its record and its 201,
\* and the generating teacher's display is answered with the view inside the
\* window and Expired after it
C11_SessionOutlivesSlot ==
    [][\A p \in Workers :
          /\ RedeemStep(p, "call") =>
                ((pc'[p] = "studentCourse") <=> (LiveSessionsOf(req[p].QR_ID) # {}))
          /\ (RedeemStep(p, "studentCourse")
                /\ <<req[p].user.id, loc[p].courseIdForQR>> \in student_course)
                => pc'[p] = "existingAttendance"
          /\ (RedeemStep(p, "existingAttendance")
                /\ RecordsOf(attendance, req[p].user.id, req[p].QR_ID) = {})
                => pc'[p] = "insertAttendance"
          /\ (RedeemStep(p, "insertAttendance")
                /\ RecordsOf(attendance, req[p].user.id, req[p].QR_ID) = {})
                => /\ pc'[p] = "updateDevice"
                   /\ RecordsOf(attendance', req[p].user.id, req[p].QR_ID) # {}
          /\ RedeemStep(p, "updateDevice") => res'[p].status = 201
          /\ Served(p, "GET /api/qr/:qrId/display") =>
                \A q \in SessionsOf(req[p].QR_ID) :
                    q.Teacher_Email = req[p].user.id =>
                        res'[p].status = (IF now - q.Generated_Time <= Window THEN 200 ELSE 410)]_vars

\* a code was redeemed after its slot was deleted and after the slot's end time
C11_Witness ==
    \E p \in Workers : \E q \in QR_code : \E a \in attendance :
        /\ pc[p] = "done" /\ StudentRedeems(req[p]) /\ res[p].status = 201
        /\ q.QR_ID = req[p].QR_ID /\ a.QR_ID = q.QR_ID
        /\ a.Date >= Window
        /\ timetable = {}
        /\ SlotsOfSession(q) = {}

-----------------------------------------------------------------------------
(* Properties of deletion, the requests served one after another *)

\* C12: a teacher's deletion is answered NotFound when no stored slot has the
\* id, whoever the teacher is; otherwise Forbidden, the slot kept, when the
\* teacher neither created the slot nor is an administrator; otherwise exactly
\* that slot is removed and every other slot is left as it was
C12_DeleteSlot ==
    [][\A p \in Workers :
          (Served(p, "DELETE /api/timetables/:timetableId") /\ req[p].user.type = "teacher") =>
             LET user == req[p].user
                 slots == {row \in timetable : row.Timetable_ID = req[p].timetableId}
             IN IF slots = {}
                THEN res'[p] = Response(404, "NotFound") /\ timetable' = timetable
                ELSE IF \E row \in slots : row.Teacher_Email # user.id /\ ~user.Is_Admin
                THEN res'[p] = Response(403, "Forbidden") /\ timetable' = timetable
                ELSE /\ res'[p].status = 200
                     /\ Cardinality(slots) = 1
                     /\ timetable' = timetable \ slots]_vars

\* a teacher who is no administrator was refused the deletion of another
\* teacher's slot, which is still stored
C12_Witness ==
    \E p \in Workers : \E row \in timetable :
        /\ pc[p] = "done" /\ req[p].route = "DELETE /api/timetables/:timetableId"
        /\ res[p] = Response(403, "Forbidden")
        /\ row.Timetable_ID = req[p].timetableId
        /\ row.Teacher_Email # req[p].user.id
        /\ ~req[p].user.Is_Admin

-----------------------------------------------------------------------------
(* Sessions: slots are proposed and deleted, codes generated, redeemed and   *)
(* displayed, one request after another, while time passes                   *)

SessionCalls ==
    {PostTimetablesReq(TeacherUser(t), b) : t \in Teachers, b \in RedeemSlotBodies}
    \cup {DeleteTimetablesReq(TeacherUser("t2"), id) : id \in 1..MaxTid}
    \cup {QrGenerateReq(TeacherUser(t), "c1") : t \in Teachers}
    \cup {AttendanceMarkReq(StudentUser("s1"), q) : q \in 1..MaxQr}
    \cup {QrDisplayReq(TeacherUser(t), q) : t \in Teachers, q \in 1..(MaxQr + 1)}
    \cup {QrDisplayReq(StudentUser("s1"), 1)}

CallSession == AllIdle /\ \E r \in SessionCalls : Call("w1", r)
ServeSessionSlot == PostTimetables("w1")
ServeSessionDelete == DeleteTimetables("w1")
ServeSessionMint == PostQrGenerate("w1")
ServeSessionRedeem == PostAttendanceMark("w1")
ServeSessionDisplay == GetQrDisplay("w1")
ReturnSession == Return("w1")

NextSession ==
    \/ CallSession
    \/ ServeSessionSlot
    \/ ServeSessionDelete
    \/ ServeSessionMint
    \/ ServeSessionRedeem
    \/ ServeSessionDisplay
    \/ ReturnSession
    \/ Tick

SpecSession == Init /\ [][NextSession]_vars

\* C13: a teacher's display request is answered NotFound when the token is
\* unknown; otherwise Forbidden when the caller neither generated the code nor
\* is an administrator, also when the code has expired; otherwise Expired when
\* now - Generated_Time > 15 minutes; otherwise with the view, whose Expires_At
\* is Generated_Time + 15 minutes.  Only the generating teacher and
\* administrators ever get a view, and the request changes nothing
C13_DisplaySession ==
    [][\A p \in Workers :
          Served(p, "GET /api/qr/:qrId/display") =>
             LET user == req[p].user
                 found == SessionsOf(req[p].QR_ID)
             IN /\ user.type = "teacher" =>
                      IF found = {} THEN res'[p] = Response(404, "NotFound")
                      ELSE \A q \in found :
                             IF q.Teacher_Email # user.id /\ ~user.Is_Admin
                             THEN res'[p] = Response(403, "Forbidden")
                             ELSE IF now - q.Generated_Time > Window
                             THEN res'[p] = Response(410, "Expired")
                             ELSE /\ res'[p].status = 200
                                  /\ res'[p].id = q.QR_ID
                                  /\ res'[p].Course_ID = q.Course_ID
                                  /\ res'[p].Generated_Time = q.Generated_Time
                                  /\ res'[p].Expires_At = q.Generated_Time + Window
                /\ res'[p].status = 200 =>
                      /\ user.type = "teacher"
                      /\ \A q \in found : q.Teacher_Email = user.id \/ user.Is_Admin
                /\ UNCHANGED <<timetable, QR_code, attendance, student_devices>>]_vars

\* a teacher who is no administrator was answered Forbidden on an expired code
\* of another teacher
C13_Witness ==
    \E p \in Workers : \E q \in QR_code :
        /\ pc[p] = "done" /\ req[p].route = "GET /api/qr/:qrId/display"
        /\ req[p].QR_ID = q.QR_ID
        /\ res[p] = Response(403, "Forbidden")
        /\ now - q.Generated_Time > Window
        /\ q.Teacher_Email # req[p].user.id

\* a code was displayed to its teacher at the last instant of its window
DisplayedAtWindowEnd ==
    \E p \in Workers : \E q \in QR_code :
        /\ pc[p] = "done" /\ req[p].route = "GET /api/qr/:qrId/display"
        /\ req[p].QR_ID = q.QR_ID
        /\ res[p].status = 200
        /\ now = q.Generated_Time + Window

-----------------------------------------------------------------------------
(* Properties of redemptions of several students in flight together *)

\* another worker serves a redemption of the same student and token
SharesPair(p) ==
    \E q \in Workers \ {p} :
        /\ StudentRedeems(req[q])
        /\ req[q].user = req[p].user /\ req[q].QR_ID = req[p].QR_ID

\* C14: a redemption that passed the checks of the code and of the enrolment
\* goes on exactly when its own student has no record for the token, however
\* many other students have one and however the statements interleave; when no
\* other request redeems for the same student and token it ends with 201
C14_OncePerStudent ==
    /\ [](\A p \in Workers : (Redeemed(p) /\ ~SharesPair(p)) => res[p].status = 201)
    /\ [][\A p \in Workers :
            LET own == RecordsOf(attendance, req[p].user.id, req[p].QR_ID)
            IN /\ RedeemStep(p, "existingAttendance") =>
                     ((pc'[p] = "insertAttendance") <=> (own = {}))
               /\ (RedeemStep(p, "insertAttendance") /\ own = {}) =>
                     /\ pc'[p] = "updateDevice"
                     /\ Cardinality(RecordsOf(attendance', req[p].user.id, req[p].QR_ID)) = 1
               /\ RedeemStep(p, "updateDevice") => res'[p].status = 201]_vars

\* two enrolled students redeemed the same code together: the second passed the
\* look-up for an earlier record after the first had inserted, and both succeeded
C14_Witness ==
    \E p \in Workers : \E q \in Workers :
        /\ p # q
        /\ pc[p] = "done" /\ pc[q] = "done"
        /\ StudentRedeems(req[p]) /\ StudentRedeems(req[q])
        /\ req[p].user # req[q].user
        /\ req[p].QR_ID = req[q].QR_ID
        /\ res[p].status = 201 /\ res[q].status = 201
        /\ Cardinality({a \in attendance : a.QR_ID = req[p].QR_ID}) = 2

-----------------------------------------------------------------------------
(* Properties of the validation of proposals *)

\* the times of a body are well formed
WellFormedTimes(b) == timeRegex(b.Start_Time) /\ timeRegex(b.End_Time)

\* the end of a body is not after its start, as times of day
EndNotAfterStart(b) == TimeValue(b.End_Time) <= TimeValue(b.Start_Time)

\* C15: every stored slot has Start_Time < End_Time as times of day, and a
\* teacher's proposal with well formed times, in either form each, whose end
\* is not after its start is answered with the validation error and stores nothing
C15_StartBeforeEnd ==
    /\ [](\A row \in timetable : row.Start_Time < row.End_Time)
    /\ [][\A p \in Workers :
            (/\ Served(p, "POST /api/timetables")
             /\ req[p].user.type = "teacher"
             /\ WellFormedTimes(req[p].body)
             /\ EndNotAfterStart(req[p].body))
            => (res'[p] = Response(400, "EndNotAfterStart") /\ timetable' = timetable)]_vars

-----------------------------------------------------------------------------
(* Proposals of every kind, served one after another: well formed ones,      *)
(* ones that name a division or a course that does not exist, and ones the   *)
(* validation is to turn away                                                *)

ProposeValidBodies ==
    {TimetableBody("c1", "d1", "Monday", T0000, T0015, "r1"),
     TimetableBody("c1", "d1", "Monday", T0015, T0030, "r1")}

\* division d9 and course c9 do not exist
ProposeUnknownBodies ==
    {TimetableBody("c1", "d9", "Monday", T0000, T0015, "r1"),
     TimetableBody("c1", "d9", "Monday", T0000, T0015, "r2"),
     TimetableBody("c9", "d1", "Monday", T0000, T0015, "r1")}

\* "00" and "00:15:00:00" are no times
ProposeInvalidBodies ==
    {TimetableBody(c, "d1", "Monday", T0000, T0015, "") : c \in Courses}
    \cup {TimetableBody(c, "d1", "Monday", <<>>, T0015, "r1") : c \in Courses}
    \cup {TimetableBody(c, "d1", "Funday", T0000, T0015, "r1") : c \in Courses}
    \cup {TimetableBody(c, "d1", "Monday", <<0>>, T0015, "r1") : c \in Courses}
    \cup {TimetableBody(c, "d1", "Monday", T0000, <<0, 15, 0, 0>>, "r1") : c \in Courses}
    \cup {TimetableBody(c, "d1", "Monday", T0015, T0000, "r1") : c \in Courses}
    \cup {TimetableBody(c, "d1", "Monday", T0015, T0015, "r1") : c \in Courses}
    \cup {TimetableBody(c, "d1", "Monday", T001500, T0015, "r1") : c \in Courses}
    \cup {TimetableBody(c, "d1", "Monday", T0015, T001500, "r1") : c \in Courses}

ProposeCalls ==
    {PostTimetablesReq(TeacherUser(t), b) :
        t \in Teachers, b \in ProposeValidBodies \cup ProposeUnknownBodies \cup ProposeInvalidBodies}

CallPropose == AllIdle /\ \E r \in ProposeCalls : Call("w1", r)
ServePropose == PostTimetables("w1")
ReturnPropose == Return("w1")

NextPropose ==
    \/ CallPropose
    \/ ServePropose
    \/ ReturnPropose

SpecPropose == Init /\ [][NextPropose]_vars

\* the body names a division or a course that does not exist
UnknownReference(b) == b.Div_ID \notin Divisions \/ b.Course_ID \notin Courses

\* C16: a teacher's proposal that passes the validation and names a division or
\* a course that does not exist is answered with a referential error, never
\* with a conflict, whatever slots are stored, and stores nothing
C16_ReferencesBeforeConflicts ==
    [][\A p \in Workers :
          (/\ Served(p, "POST /api/timetables")
           /\ req[p].user.type = "teacher"
           /\ TimetableValidation(req[p].body) = "ok"
           /\ UnknownReference(req[p].body))
          => /\ res'[p] \in {Response(400, "InvalidReference"), Response(403, "NotAssigned")}
             /\ timetable' = timetable]_vars

\* a field of the body is missing
MissingField(b) ==
    \/ b.Course_ID = "" \/ b.Div_ID = "" \/ b.Day_Of_Week = ""
    \/ b.Start_Time = <<>> \/ b.End_Time = <<>> \/ b.Room_Number = ""

\* the body is to be turned away by the validation
InvalidProposal(b) ==
    \/ MissingField(b)
    \/ b.Day_Of_Week \notin {validDays[i] : i \in 1..Len(validDays)}
    \/ ~WellFormedTimes(b)
    \/ (WellFormedTimes(b) /\ EndNotAfterStart(b))

\* the answers of the validation
ValidationErrors ==
    {Response(400, e) : e \in {"MissingFields", "InvalidDay", "InvalidTimeFormat", "EndNotAfterStart"}}

\* C17: a teacher's proposal with a missing field, a day outside the seven day
\* names, a malformed time or an end not after the start is answered with a
\* validation error, also when an assignment or conflict check would have turned
\* it away, and the store is left as it was: no Timetable_ID is drawn and the
\* timetable is unchanged
C17_ValidationBeforeStore ==
    [][\A p \in Workers :
          (/\ Served(p, "POST /api/timetables")
           /\ req[p].user.type = "teacher"
           /\ InvalidProposal(req[p].body))
          => /\ res'[p] \in ValidationErrors
             /\ timetable' = timetable
             /\ nextTid' = nextTid]_vars

-----------------------------------------------------------------------------
(* The active slots: slots are proposed and teachers ask for their current   *)
(* classes, one request after another, while time passes                     *)

ActiveCalls ==
    {PostTimetablesReq(TeacherUser(t), b) : t \in Teachers, b \in MintSlotBodies}
    \cup {MyCurrentClassesReq(TeacherUser(t)) : t \in Teachers}
    \cup {MyCurrentClassesReq(StudentUser("s1"))}

CallActive == AllIdle /\ \E r \in ActiveCalls : Call("w1", r)
ServeActiveSlot == PostTimetables("w1")
ServeActive == GetMyCurrentClasses("w1")
ReturnActive == Return("w1")

NextActive ==
    \/ CallActive
    \/ ServeActiveSlot
    \/ ServeActive
    \/ ReturnActive
    \/ Tick

SpecActive == Init /\ [][NextActive]_vars

\* the stored slots of this teacher on this day whose interval holds this time
\* of day, half open
ActiveSlots(teacherEmail, day, timeOfDay) ==
    {row \in timetable :
        /\ row.Teacher_Email = teacherEmail
        /\ row.Day_Of_Week = day
        /\ row.Start_Time <= timeOfDay
        /\ timeOfDay < row.End_Time}

\* C18: a teacher's request for their current classes is answered with exactly
\* the stored slots of that teacher whose day is today and whose interval holds
\* the present time of day, half open: start <= now < end
C18_ActiveSlotsFor ==
    [][\A p \in Workers :
          (Served(p, "GET /api/teachers/my-current-classes") /\ req[p].user.type = "teacher") =>
             LET active == ActiveSlots(req[p].user.id,
                                       validDays[((now \div SecondsPerDay) % 7) + 1],
                                       now % SecondsPerDay)
             IN /\ res'[p].status = 200
                /\ {r.Timetable_ID : r \in res'[p].rows} = {row.Timetable_ID : row \in active}
                /\ \A r \in res'[p].rows : \E row \in active :
                      /\ r.Timetable_ID = row.Timetable_ID
                      /\ r.Course_ID = row.Course_ID /\ r.Teacher_Email = row.Teacher_Email
                      /\ r.Start_Time = row.Start_Time /\ r.End_Time = row.End_Time
                /\ timetable' = timetable]_vars

\* at the instant one slot of a teacher ends and the next begins, the answer
\* holds the beginning slot only
C18_Witness ==
    \E p \in Workers : \E a \in timetable : \E b \in timetable :
        /\ pc[p] = "done" /\ req[p].route = "GET /api/teachers/my-current-classes"
        /\ res[p].status = 200
        /\ a.Teacher_Email = req[p].user.id /\ b.Teacher_Email = req[p].user.id
        /\ a.Day_Of_Week = "Monday" /\ b.Day_Of_Week = "Monday"
        /\ a.End_Time = now /\ b.Start_Time = now
        /\ {r.Timetable_ID : r \in res[p].rows} = {b.Timetable_ID}

-----------------------------------------------------------------------------
(* GET /api/students/my-attendance and                                       *)
(* GET /api/teachers/my-courses/:courseId/attendance                         *)

MyAttendanceReq(user) ==
    [route |-> "GET /api/students/my-attendance", user |-> user]

CourseAttendanceReq(user, courseId) ==
    [route |-> "GET /api/teachers/my-courses/:courseId/attendance", user |-> user,
     courseId |-> courseId]

\* a value of an SQL expression: NULL or a number
SqlNull == [isNull |-> TRUE, value |-> 0]
SqlValue(n) == [isNull |-> FALSE, value |-> n]

\* NULLIF(a, n): NULL when a = n
NULLIF(a, n) == IF ~a.isNull /\ a.value = n THEN SqlNull ELSE a

\* IFNULL(a, b): b when a is NULL
IFNULL(a, b) == IF a.isNull THEN b ELSE a

\* the quotient of two counts is a DECIMAL with four decimal places: the
\* percentage is held in units of 1/10000
PercentScale == 10000

\* (a / b) * 100: NULL when an operand is NULL or the divisor is 0, else the
\* quotient times 100 rounded to the fourth decimal place
SqlPercent(a, b) ==
    IF a.isNull \/ b.isNull \/ b.value = 0 THEN SqlNull
    ELSE SqlValue((2 * a.value * 100 * PercentScale + b.value) \div (2 * b.value))

\* a faulty variant: attendance is joined on the student alone
JoinedRowsOnStudentOnly(qr, att, studentPRN, courseId) ==
    LET codes == {q \in qr : q.Course_ID = courseId}
        Matches(q) == {a \in att : a.PRN = studentPRN}
    IN IF codes = {} THEN {<<0, 0>>}
       ELSE UNION {IF Matches(q) = {} THEN {<<q.QR_ID, 0>>}
                   ELSE {<<q.QR_ID, a.Attendance_ID>> : a \in Matches(q)} : q \in codes}

\* the rows of one group: QR_code LEFT JOIN attendance ON s.PRN = a.PRN AND qr.QR_ID = a.QR_ID
\* for one student and one course; a pair <<QR_ID, Attendance_ID>>, 0 standing for NULL
JoinedRows(qr, att, studentPRN, courseId) ==
    LET codes == {q \in qr : q.Course_ID = courseId}
        Matches(q) == {a \in att : a.PRN = studentPRN /\ a.QR_ID = q.QR_ID}
    IN IF codes = {} THEN {<<0, 0>>}
       ELSE UNION {IF Matches(q) = {} THEN {<<q.QR_ID, 0>>}
                   ELSE {<<q.QR_ID, a.Attendance_ID>> : a \in Matches(q)} : q \in codes}

\* COUNT(DISTINCT qr.QR_ID)
Total_Classes_Held(rows) == Cardinality({r[1] : r \in rows} \ {0})

\* SUM(CASE WHEN a.Status = TRUE THEN 1 ELSE 0 END)
Classes_Attended(att, rows) ==
    Cardinality({r \in rows : \E a \in att : a.Attendance_ID = r[2] /\ a.Status})

\* a faulty variant: the percentage without its IFNULL
Attendance_PercentageNoIfNull(attended, total) ==
    SqlPercent(SqlValue(attended), NULLIF(SqlValue(total), 0))

\* IFNULL((SUM(...) / NULLIF(COUNT(DISTINCT qr.QR_ID), 0)) * 100, 0)
Attendance_Percentage(attended, total) ==
    IFNULL(SqlPercent(SqlValue(attended), NULLIF(SqlValue(total), 0)), SqlValue(0))

\* one row of either aggregation
SummaryRow(qr, att, studentPRN, courseId) ==
    LET rows == JoinedRows(qr, att, studentPRN, courseId)
    IN [PRN |-> studentPRN, Course_ID |-> courseId,
        Total_Classes_Held |-> Total_Classes_Held(rows),
        Classes_Attended |-> Classes_Attended(att, rows),
        Attendance_Percentage |->
            Attendance_Percentage(Classes_Attended(att, rows), Total_Classes_Held(rows))]

\* the summary of a student: one row for each course the student is enrolled in
attendanceSummary(qr, att, studentPRN) ==
    {SummaryRow(qr, att, sc[1], sc[2]) : sc \in {e \in student_course : e[1] = studentPRN}}

\* the report of a course: one row for each student enrolled in it
attendanceReport(qr, att, courseId) ==
    {SummaryRow(qr, att, sc[1], sc[2]) : sc \in {e \in student_course : e[2] = courseId}}

\* the 200 response of either route
Rows(rows) == [status |-> 200, error |-> "", id |-> 0, rows |-> rows]

\* the whole handler: it issues one statement
GetMyAttendance(p) ==
    /\ pc[p] = "call"
    /\ req[p].route = "GET /api/students/my-attendance"
    /\ IF ~IsStudent(req[p].user) THEN Respond(p, Response(403, "StudentRequired"))
       ELSE Respond(p, Rows(attendanceSummary(QR_code, attendance, req[p].user.id)))
    /\ UNCHANGED <<timetable, nextTid, QR_code, attendance, student_devices, now>>

\* the whole handler: the assignment query reads a table that does not change
GetCourseAttendance(p) ==
    /\ pc[p] = "call"
    /\ req[p].route = "GET /api/teachers/my-courses/:courseId/attendance"
    /\ IF ~IsTeacher(req[p].user) THEN Respond(p, Response(403, "TeacherRequired"))
       ELSE IF teacherCourse(req[p].user.id, req[p].courseId) = {}
       THEN Respond(p, Response(403, "NotAuthorized"))
       ELSE Respond(p, Rows(attendanceReport(QR_code, attendance, req[p].courseId)))
    /\ UNCHANGED <<timetable, nextTid, QR_code, attendance, student_devices, now>>

-----------------------------------------------------------------------------
(* Summaries and reports: a slot is proposed, codes are generated and        *)
(* redeemed, students ask for their summary and teachers for a course's      *)
(* report, one request after another                                         *)

ReportCalls ==
    {PostTimetablesReq(TeacherUser("t1"), b) : b \in RedeemSlotBodies}
    \cup {QrGenerateReq(TeacherUser("t1"), "c1")}
    \cup {AttendanceMarkReq(StudentUser(st), q) : st \in {"s1", "s3"}, q \in 1..MaxQr}
    \cup {MyAttendanceReq(StudentUser(st)) : st \in Students}
    \cup {CourseAttendanceReq(TeacherUser("t1"), c) : c \in Courses}
    \cup {CourseAttendanceReq(TeacherUser("t2"), "c2"), MyAttendanceReq(TeacherUser("t1")),
          CourseAttendanceReq(StudentUser("s1"), "c1")}

CallReport == AllIdle /\ \E r \in ReportCalls : Call("w1", r)
ServeReportSlot == PostTimetables("w1")
ServeReportMint == PostQrGenerate("w1")
ServeReportRedeem == PostAttendanceMark("w1")
ServeMyAttendance == GetMyAttendance("w1")
ServeCourseAttendance == GetCourseAttendance("w1")
ReturnReport == Return("w1")

NextReport ==
    \/ CallReport
    \/ ServeReportSlot
    \/ ServeReportMint
    \/ ServeReportRedeem
    \/ ServeMyAttendance
    \/ ServeCourseAttendance
    \/ ReturnReport

SpecReport == Init /\ [][NextReport]_vars

\* the sessions held for a course
SessionsHeld(courseId) == {q \in QR_code : q.Course_ID = courseId}

\* the sessions of a course a student has a record for
SessionsAttended(studentPRN, courseId) ==
    {q \in SessionsHeld(courseId) : \E a \in attendance : a.PRN = studentPRN /\ a.QR_ID = q.QR_ID}

\* the row reports the counts of its student and course, and a percentage that
\* is a number: 0 when no session was held, else attended / total * 100 to
\* the fourth decimal place
RowIsRight(r) ==
    LET total == Cardinality(SessionsHeld(r.Course_ID))
        attended == Cardinality(SessionsAttended(r.PRN, r.Course_ID))
        pct == r.Attendance_Percentage
        diff == pct.value * total - attended * 100 * PercentScale
    IN /\ r.Total_Classes_Held = total
       /\ r.Classes_Attended = attended
       /\ ~pct.isNull
       /\ total = 0 => pct.value = 0
       /\ total > 0 => (2 * diff <= total /\ -2 * diff <= total)
       /\ (total > 0 /\ (attended * 100) % total = 0) =>
             pct.value = ((attended * 100) \div total) * PercentScale

\* C19: the summary of a student holds one row for each course the student is
\* enrolled in, the report of a course one row for each student enrolled in it,
\* and every row's percentage is 0 when the course has no session and
\* attended / total * 100 otherwise, never NULL
C19_PercentageSafety ==
    [][\A p \in Workers :
          /\ (Served(p, "GET /api/students/my-attendance") /\ req[p].user.type = "student") =>
                /\ res'[p].status = 200
                /\ {<<r.PRN, r.Course_ID>> : r \in res'[p].rows}
                      = {e \in student_course : e[1] = req[p].user.id}
                /\ \A r \in res'[p].rows : RowIsRight(r)
          /\ (/\ Served(p, "GET /api/teachers/my-courses/:courseId/attendance")
              /\ req[p].user.type = "teacher"
              /\ <<req[p].user.id, req[p].courseId>> \in teacher_course) =>
                /\ res'[p].status = 200
                /\ {<<r.PRN, r.Course_ID>> : r \in res'[p].rows}
                      = {e \in student_course : e[2] = req[p].courseId}
                /\ \A r \in res'[p].rows : RowIsRight(r)]_vars

\* while another course has sessions and records, the report of a course with
\* no session holds a row with percentage 0
C19_Witness ==
    \E p \in Workers :
        /\ pc[p] = "done"
        /\ req[p].route = "GET /api/teachers/my-courses/:courseId/attendance"
        /\ res[p].status = 200
        /\ attendance # {}
        /\ \E r \in res[p].rows :
              /\ r.Total_Classes_Held = 0
              /\ r.Attendance_Percentage = SqlValue(0)

\* a student's summary reports one session attended of two held, 50 percent
SummaryReportsHalf ==
    \E p \in Workers :
        /\ pc[p] = "done" /\ req[p].route = "GET /api/students/my-attendance"
        /\ res[p].status = 200
        /\ \E r \in res[p].rows :
              /\ r.Total_Classes_Held = 2 /\ r.Classes_Attended = 1
              /\ r.Attendance_Percentage = SqlValue(50 * PercentScale)

-----------------------------------------------------------------------------
(* Properties of the stored sessions, the requests served one after another *)

\* the tokens of the stored sessions
Tokens(qr) == {q.QR_ID : q \in qr}

\* C20: a stored session is never removed nor changed; a session is added only
\* by a request to generate a code that is answered 201, one at a time and
\* with a token no stored session has; every 201 of that request adds one;
\* a display request adds none; no two stored sessions share a token
C20_SessionsImmutable ==
    /\ [](\A a \in QR_code : \A b \in QR_code : a.QR_ID = b.QR_ID => a = b)
    /\ [][/\ QR_code \subseteq QR_code'
          /\ Cardinality(QR_code' \ QR_code) <= 1
          /\ \A new \in QR_code' \ QR_code :
                /\ new.QR_ID \notin Tokens(QR_code)
                /\ \E p \in Workers :
                      /\ Served(p, "POST /api/qr/generate")
                      /\ res'[p].status = 201 /\ res'[p].id = new.QR_ID
                      /\ new.Course_ID = req[p].Course_ID
                      /\ new.Teacher_Email = req[p].user.id
                      /\ new.Generated_Time = now
          /\ \A p \in Workers :
                (Served(p, "POST /api/qr/generate") /\ res'[p].status = 201)
                => Cardinality(QR_code' \ QR_code) = 1
          /\ \A p \in Workers :
                (~Served(p, "POST /api/qr/generate") /\ pc[p] = "call" /\ pc'[p] = "done")
                => QR_code' = QR_code]_vars

\* the first session of a slot was redeemed after a second one was generated
\* during the same slot, and the slot has been deleted
C20_Witness ==
    \E first \in QR_code : \E second \in QR_code : \E a \in attendance :
        /\ first.QR_ID # second.QR_ID
        /\ first.Course_ID = second.Course_ID
        /\ first.Teacher_Email = second.Teacher_Email
        /\ first.Generated_Time < second.Generated_Time
        /\ a.QR_ID = first.QR_ID
        /\ a.Date > second.Generated_Time
        /\ timetable = {}

-----------------------------------------------------------------------------
(* The attendance table over the life of sessions and slots *)

\* C21: the attendance table only grows.  No step removes or changes a row;
\* a step that adds rows is a redemption answered 201; and a redemption answered
\* 201 adds exactly one row, with Status true, for the calling student and the
\* token of the request, which is then the only row of that student and token
C21_LedgerOnlyGrows ==
    [][/\ attendance \subseteq attendance'
       /\ attendance' # attendance =>
             \E p \in Workers :
                /\ Served(p, "POST /api/attendance/mark")
                /\ StudentRedeems(req[p])
                /\ res'[p].status = 201
       /\ \A p \in Workers :
             (Served(p, "POST /api/attendance/mark") /\ res'[p].status = 201) =>
                \E a \in attendance' \ attendance :
                   /\ attendance' = attendance \cup {a}
                   /\ a.PRN = req[p].user.id
                   /\ a.QR_ID = req[p].QR_ID
                   /\ a.Status = TRUE
                   /\ RecordsOf(attendance', a.PRN, a.QR_ID) = {a}]_vars

\* a record is still stored after the window of its code has passed and the
\* slot the code was generated in has been deleted
C21_Witness ==
    \E a \in attendance : \E q \in QR_code :
        /\ a.QR_ID = q.QR_ID
        /\ a.Status = TRUE
        /\ now - q.Generated_Time > Window
        /\ timetable = {}

-----------------------------------------------------------------------------
(* Redemptions whose device update may be rejected by the store *)

\* POST /api/attendance/mark: the UPDATE of student_devices is rejected by the
\* store (executeQuery rejects); the statement stands in the try block of the
\* insert, so the catch block of the handler answers
MarkUpdateDeviceFails(p) ==
    /\ pc[p] = "updateDevice"
    /\ Respond(p, AttendanceCatch("ER_LOCK_WAIT_TIMEOUT"))
    /\ UNCHANGED <<timetable, nextTid, QR_code, attendance, student_devices, now>>

DeviceFailureSetupCalls ==
    {PostTimetablesReq(TeacherUser("t1"), b) : b \in RedeemSlotBodies}
    \cup {QrGenerateReq(TeacherUser("t1"), "c1")}

DeviceFailureMarkCalls == {AttendanceMarkReq(StudentUser("s1"), q) : q \in 1..MaxQr}

CallDeviceFailureSetup == AllIdle /\ \E r \in DeviceFailureSetupCalls : Call("w1", r)
ServeDeviceFailureSlot == PostTimetables("w1")
ServeDeviceFailureMint == PostQrGenerate("w1")
CallDeviceFailureMark == AllIdle /\ \E r \in DeviceFailureMarkCalls : Call("w1", r)
StepDeviceFailureMarkStart == MarkStart("w1")
StepDeviceFailureMarkStudentCourse == MarkStudentCourse("w1")
StepDeviceFailureMarkExistingAttendance == MarkExistingAttendance("w1")
StepDeviceFailureMarkInsert == MarkInsert("w1")
StepDeviceFailureMarkUpdateDevice == MarkUpdateDevice("w1")
StepDeviceFailureMarkUpdateDeviceFails == MarkUpdateDeviceFails("w1")
ReturnDeviceFailure == Return("w1")

NextDeviceFailure ==
    \/ CallDeviceFailureSetup
    \/ ServeDeviceFailureSlot
    \/ ServeDeviceFailureMint
    \/ CallDeviceFailureMark
    \/ StepDeviceFailureMarkStart
    \/ StepDeviceFailureMarkStudentCourse
    \/ StepDeviceFailureMarkExistingAttendance
    \/ StepDeviceFailureMarkInsert
    \/ StepDeviceFailureMarkUpdateDevice
    \/ StepDeviceFailureMarkUpdateDeviceFails
    \/ ReturnDeviceFailure
    \/ Tick

SpecDeviceFailure == Init /\ [][NextDeviceFailure]_vars

\* C22: a redemption whose insert into attendance succeeded is answered 201,
\* whatever becomes of the update of student_devices that follows; so a
\* redemption answered with an error has added no record
C22_RecordedMeansSuccess ==
    [][\A p \in Workers :
          (/\ pc[p] = "updateDevice" /\ pc'[p] = "done"
           /\ \E a \in attendance :
                 /\ a.PRN = req[p].user.id /\ a.QR_ID = req[p].QR_ID
                 /\ a.Date = loc[p].attendanceTimestamp)
          => res'[p].status = 201]_vars

\* a redemption was answered 500 and its record is stored
RecordedButFailed ==
    \E p \in Workers : \E a \in attendance :
        /\ pc[p] = "done" /\ StudentRedeems(req[p])
        /\ res[p] = Response(500, "Failed")
        /\ a.PRN = req[p].user.id /\ a.QR_ID = req[p].QR_ID

-----------------------------------------------------------------------------
(* Expiry over time *)

\* the code's window has passed at instant t
Expired(q, t) == t - q.Generated_Time > Window

\* C23: expiry depends on the elapsed time alone and is permanent.  The clock
\* never goes back; a stored code keeps its row, no step stores another row for
\* its token, and a code whose window has passed stays so; a code passes its
\* window in a step that changes no table; a redemption of a code whose window
\* has passed is answered InvalidOrExpired and stores nothing, and a display
\* request for it is never answered with the view
C23_ExpiryPermanent ==
    [][/\ now <= now'
       /\ \A q \in QR_code :
             /\ q \in QR_code'
             /\ \A q2 \in QR_code' : q2.QR_ID = q.QR_ID => q2 = q
             /\ Expired(q, now) => Expired(q, now')
             /\ (~Expired(q, now) /\ Expired(q, now')) =>
                   UNCHANGED <<timetable, QR_code, attendance, student_devices>>
       /\ \A p \in Workers :
             (/\ Served(p, "POST /api/attendance/mark")
              /\ StudentRedeems(req[p])
              /\ \E q \in SessionsOf(req[p].QR_ID) : Expired(q, now))
             => (res'[p] = Response(400, "InvalidOrExpired") /\ attendance' = attendance)
       /\ \A p \in Workers :
             (/\ Served(p, "GET /api/qr/:qrId/display")
              /\ \E q \in SessionsOf(req[p].QR_ID) : Expired(q, now))
             => res'[p].status \in {403, 410}]_vars

\* the teacher who generated a code is answered Expired on displaying it, and
\* the code was redeemed while it was live
C23_Witness ==
    \E p \in Workers : \E q \in QR_code : \E a \in attendance :
        /\ pc[p] = "done" /\ req[p].route = "GET /api/qr/:qrId/display"
        /\ req[p].QR_ID = q.QR_ID
        /\ req[p].user.id = q.Teacher_Email
        /\ res[p] = Response(410, "Expired")
        /\ a.QR_ID = q.QR_ID

-----------------------------------------------------------------------------
(* Replacing a slot: delete, then propose again *)

\* the request body that proposes the fields of a stored slot again
SlotBody(row) ==
    TimetableBody(row.Course_ID, row.Div_ID, row.Day_Of_Week,
                  currentTime(row.Start_Time), currentTime(row.End_Time), row.Room_Number)

\* the rows of tt that stand against a proposal of this teacher: an overlapping
\* slot of the room or of the teacher on the day, or a slot with the proposal's
\* division, day, start time and room
ConflictsOf(tt, teacherEmail, b) ==
    {row \in tt :
        \/ /\ row.Day_Of_Week = b.Day_Of_Week
           /\ row.Room_Number = b.Room_Number \/ row.Teacher_Email = teacherEmail
           /\ HalfOpenOverlap(TimeValue(b.Start_Time), TimeValue(b.End_Time),
                              row.Start_Time, row.End_Time)
        \/ /\ row.Div_ID = b.Div_ID
           /\ row.Day_Of_Week = b.Day_Of_Week
           /\ row.Start_Time = TimeValue(b.Start_Time)
           /\ row.Room_Number = b.Room_Number}

\* C24: a slot is replaced by deleting it and proposing it again.  A successful
\* delete removes the slot s and nothing else, and in the timetable it leaves
\* nothing stands against the fields of s, nor against any proposal that only s
\* stood against; and a valid proposal that no stored slot stands against is
\* answered 201 and adds one slot with the proposed fields, the proposer as
\* teacher and an ID no stored slot has
C24_DeleteAndRecreate ==
    [][\A p \in Workers :
          /\ (Served(p, "DELETE /api/timetables/:timetableId") /\ res'[p].status = 200) =>
                \E s \in timetable :
                   /\ s.Timetable_ID = req[p].timetableId
                   /\ timetable' = timetable \ {s}
                   /\ ConflictsOf(timetable', s.Teacher_Email, SlotBody(s)) = {}
                   /\ \A r \in TimetableCalls :
                         (/\ r.route = "POST /api/timetables"
                          /\ ConflictsOf(timetable, r.user.id, r.body) \subseteq {s})
                         => ConflictsOf(timetable', r.user.id, r.body) = {}
          /\ (ProposalServed(p) /\ ConflictsOf(timetable, req[p].user.id, req[p].body) = {}) =>
                \E row \in timetable' :
                   /\ timetable' = timetable \cup {row}
                   /\ \A o \in timetable : o.Timetable_ID # row.Timetable_ID
                   /\ res'[p] = Created(row.Timetable_ID)
                   /\ row.Teacher_Email = req[p].user.id
                   /\ SlotBody(row) = SlotBody(TimetableRow(0, "", req[p].body))]_vars

\* the first slot drawn was deleted, and the next proposal was stored in the
\* timetable the delete left
C24_Witness ==
    \E p \in Workers : \E row \in timetable :
        /\ pc[p] = "done" /\ req[p].route = "POST /api/timetables"
        /\ res[p] = Created(2)
        /\ nextTid = 2
        /\ timetable = {row}
        /\ row.Timetable_ID = 2
        /\ row.Start_Time < row.End_Time

-----------------------------------------------------------------------------
(* The order of the checks of a redemption *)

\* C25: a student's redemption checks the code, then the enrolment, then the
\* earlier record.  When the token is unknown or its window has passed the
\* answer is InvalidOrExpired, whatever the enrolment and the records of the
\* student; when the code is live and the student is not enrolled in its course
\* the answer is NotEnrolled; AlreadyMarked is answered only when the code is
\* live, the student is enrolled and has a record for the token; and a
\* redemption answered with an error stores nothing
C25_CheckOrder ==
    [][\A p \in Workers :
          (Served(p, "POST /api/attendance/mark") /\ StudentRedeems(req[p])) =>
             LET prn == req[p].user.id
                 live == LiveSessionsOf(req[p].QR_ID)
                 enrolled == \E q \in live : <<prn, q.Course_ID>> \in student_course
                 recorded == RecordsOf(attendance, prn, req[p].QR_ID) # {}
             IN /\ live = {} => res'[p] = Response(400, "InvalidOrExpired")
                /\ (live # {} /\ ~enrolled) => res'[p] = Response(403, "NotEnrolled")
                /\ res'[p] = Response(409, "AlreadyMarked") =>
                      (live # {} /\ enrolled /\ recorded)
                /\ res'[p].status # 201 => attendance' = attendance]_vars

\* a student who has a record for a code redeems it again after its window and
\* is answered InvalidOrExpired
C25_Witness ==
    \E p \in Workers : \E q \in QR_code :
        /\ pc[p] = "done" /\ StudentRedeems(req[p])
        /\ req[p].QR_ID = q.QR_ID
        /\ res[p] = Response(400, "InvalidOrExpired")
        /\ now - q.Generated_Time > Window
        /\ RecordsOf(attendance, req[p].user.id, q.QR_ID) # {}

\* a student who is not enrolled is answered InvalidOrExpired on a code whose
\* window has passed
UnenrolledAnsweredExpired ==
    \E p \in Workers : \E q \in QR_code :
        /\ pc[p] = "done" /\ StudentRedeems(req[p])
        /\ req[p].QR_ID = q.QR_ID
        /\ res[p] = Response(400, "InvalidOrExpired")
        /\ <<req[p].user.id, q.Course_ID>> \notin student_course

-----------------------------------------------------------------------------
(* The time of a record and the window of its code *)

\* C26: every record is dated within 15 minutes of the Generated_Time of its
\* code, also when the clock advances between the query for the live code and
\* the insert of the record
C26_RecordedWithinWindow ==
    \A a \in attendance : \A q \in SessionsOf(a.QR_ID) :
        a.Date - q.Generated_Time <= Window

\* a record is dated after the window of its code, by a redemption that was
\* answered 201
RecordedAfterWindow ==
    \E p \in Workers : \E a \in attendance : \E q \in SessionsOf(a.QR_ID) :
        /\ pc[p] = "done" /\ StudentRedeems(req[p])
        /\ res[p].status = 201
        /\ a.PRN = req[p].user.id /\ a.QR_ID = req[p].QR_ID
        /\ a.Date - q.Generated_Time > Window

-----------------------------------------------------------------------------
(* The aggregations over redemptions and code generation in flight together *)

LedgerRaceSetupCalls ==
    {PostTimetablesReq(TeacherUser("t1"), b) : b \in RedeemSlotBodies}
    \cup {QrGenerateReq(TeacherUser("t1"), "c1")}

LedgerRaceMarkCalls == {AttendanceMarkReq(StudentUser("s1"), q) : q \in 1..MaxQr}

\* worker w1 serves the teacher, also while worker w2 stands inside a redemption
CallLedgerRaceSetup == pc["w1"] = "idle" /\ \E r \in LedgerRaceSetupCalls : Call("w1", r)
ServeLedgerRaceSlot == PostTimetables("w1")
ServeLedgerRaceMint == PostQrGenerate("w1")
CallLedgerRaceMark == \E p \in Workers : \E r \in LedgerRaceMarkCalls : Call(p, r)
StepLedgerRaceMarkStart == \E p \in Workers : MarkStart(p)
StepLedgerRaceMarkStudentCourse == \E p \in Workers : MarkStudentCourse(p)
StepLedgerRaceMarkExistingAttendance == \E p \in Workers : MarkExistingAttendance(p)
StepLedgerRaceMarkInsert == \E p \in Workers : MarkInsert(p)
StepLedgerRaceMarkUpdateDevice == \E p \in Workers : MarkUpdateDevice(p)
ReturnLedgerRace == \E p \in Workers : Return(p)

NextLedgerRace ==
    \/ CallLedgerRaceSetup
    \/ ServeLedgerRaceSlot
    \/ ServeLedgerRaceMint
    \/ CallLedgerRaceMark
    \/ StepLedgerRaceMarkStart
    \/ StepLedgerRaceMarkStudentCourse
    \/ StepLedgerRaceMarkExistingAttendance
    \/ StepLedgerRaceMarkInsert
    \/ StepLedgerRaceMarkUpdateDevice
    \/ ReturnLedgerRace
    \/ Tick

SpecLedgerRace == Init /\ [][NextLedgerRace]_vars

\* the rows either aggregation would answer with in this state
AggregatedRows ==
    UNION {attendanceSummary(QR_code, attendance, s) : s \in Students}
    \cup UNION {attendanceReport(QR_code, attendance, c) : c \in Courses}

\* C27: whatever codes were generated and redemptions served, and however their
\* statements were interleaved, every row of the student's summary and of the
\* course report has Classes_Attended <= Total_Classes_Held and a percentage
\* between 0 and 100
C27_AttendedWithinTotal ==
    \A r \in AggregatedRows :
        /\ 0 <= r.Classes_Attended
        /\ r.Classes_Attended <= r.Total_Classes_Held
        /\ ~r.Attendance_Percentage.isNull
        /\ 0 <= r.Attendance_Percentage.value
        /\ r.Attendance_Percentage.value <= 100 * PercentScale

\* two redemptions of one student for one code were in flight together, one
\* was answered 201 and the other 409 by the catch block, two codes are
\* stored, and the student's row reads 1 of 2
C27_Witness ==
    /\ \E p \in Workers : \E o \in Workers :
          /\ pc[p] = "done" /\ pc[o] = "done"
          /\ StudentRedeems(req[p]) /\ req[o] = req[p]
          /\ res[p].status = 201
          /\ res[o] = Response(409, "AlreadyMarkedRace")
          /\ \E r \in attendanceSummary(QR_code, attendance, req[p].user.id) :
                r.Classes_Attended = 1 /\ r.Total_Classes_Held = 2

-----------------------------------------------------------------------------
(* Codes of two courses: teacher t1 holds c1 in the first quarter of an hour *)
(* and c2 in the second, and a student of each course redeems                *)

CoursesSlotBodies ==
    {TimetableBody("c1", "d1", "Monday", T0000, T0015, "r1"),
     TimetableBody("c2", "d1", "Monday", T0015, T0030, "r1")}

CoursesCalls ==
    {PostTimetablesReq(TeacherUser("t1"), b) : b \in CoursesSlotBodies}
    \cup {QrGenerateReq(TeacherUser("t1"), c) : c \in Courses}
    \cup {AttendanceMarkReq(StudentUser(st), q) : st \in {"s1", "s2"}, q \in 1..(MaxQr + 1)}

CallCourses == AllIdle /\ \E r \in CoursesCalls : Call("w1", r)
ServeCoursesSlot == PostTimetables("w1")
ServeCoursesMint == PostQrGenerate("w1")
StepCoursesMarkStart == MarkStart("w1")
StepCoursesMarkStudentCourse == MarkStudentCourse("w1")
StepCoursesMarkExistingAttendance == MarkExistingAttendance("w1")
StepCoursesMarkInsert == MarkInsert("w1")
StepCoursesMarkUpdateDevice == MarkUpdateDevice("w1")
ReturnCourses == Return("w1")

NextCourses ==
    \/ CallCourses
    \/ ServeCoursesSlot
    \/ ServeCoursesMint
    \/ StepCoursesMarkStart
    \/ StepCoursesMarkStudentCourse
    \/ StepCoursesMarkExistingAttendance
    \/ StepCoursesMarkInsert
    \/ StepCoursesMarkUpdateDevice
    \/ ReturnCourses
    \/ Tick

SpecCourses == Init /\ [][NextCourses]_vars

\* C28: every record names a stored code and carries the Course_ID of that
\* code, whatever the student sent
C28_RecordOfStoredSession ==
    \A a \in attendance :
        /\ SessionsOf(a.QR_ID) # {}
        /\ \A q \in SessionsOf(a.QR_ID) : a.Course_ID = q.Course_ID

\* codes of both courses are stored and each has a record, of a student
\* enrolled in its course
C28_Witness ==
    \E a \in attendance : \E b \in attendance :
        /\ a.Course_ID = "c1" /\ b.Course_ID = "c2"
        /\ \E q \in SessionsOf(a.QR_ID) : q.Course_ID = "c1"
        /\ \E q \in SessionsOf(b.QR_ID) : q.Course_ID = "c2"

-----------------------------------------------------------------------------
(* Assignments behind slots and codes *)

\* every stored slot and every stored code is of a teacher assigned to its course
AssignedPairs ==
    /\ \A row \in timetable : <<row.Teacher_Email, row.Course_ID>> \in teacher_course
    /\ \A q \in QR_code : <<q.Teacher_Email, q.Course_ID>> \in teacher_course

\* C29: every stored slot and every stored code has a teacher assigned to its
\* course, although the route that generates codes never reads teacher_course.
\* A proposal for a course the proposer is not assigned to is answered
\* NotAssigned and stores nothing; a stored slot has its proposer as teacher;
\* and a code is stored only for the requesting teacher and a course of which
\* that teacher has a stored slot
C29_AssignedPairs ==
    /\ []AssignedPairs
    /\ [][\A p \in Workers :
            /\ (/\ Served(p, "POST /api/timetables")
                /\ IsTeacher(req[p].user)
                /\ TimetableValidation(req[p].body) = "ok"
                /\ <<req[p].user.id, req[p].body.Course_ID>> \notin teacher_course)
               => (res'[p] = Response(403, "NotAssigned") /\ timetable' = timetable)
            /\ Served(p, "POST /api/timetables") =>
                  \A row \in timetable' \ timetable : row.Teacher_Email = req[p].user.id
            /\ Served(p, "POST /api/qr/generate") =>
                  \A q \in QR_code' \ QR_code :
                     /\ q.Teacher_Email = req[p].user.id
                     /\ \E row \in timetable :
                           /\ row.Teacher_Email = q.Teacher_Email
                           /\ row.Course_ID = q.Course_ID]_vars

\* teacher t2, who is not assigned to c2, was refused a slot for c2 and has
\* generated a code for c1
C29_Witness ==
    \E p \in Workers : \E q \in QR_code :
        /\ pc[p] = "done" /\ req[p].route = "POST /api/timetables"
        /\ req[p].user.id = "t2" /\ req[p].body.Course_ID = "c2"
        /\ res[p] = Response(403, "NotAssigned")
        /\ q.Teacher_Email = "t2"

-----------------------------------------------------------------------------
(* GET /api/courses/:courseId/active-qr, and the three tests of a code's window *)

ActiveQrReq(user, courseId) ==
    [route |-> "GET /api/courses/:courseId/active-qr", user |-> user, courseId |-> courseId]

\* a faulty variant: the end of the window is left out
activeQRStrict(qr, courseId, t) ==
    {q \in qr : q.Course_ID = courseId /\ q.Generated_Time > t - Window}

\* SELECT QR_ID, Generated_Time, Course_ID, Teacher_Email FROM QR_code
\*   WHERE Course_ID = ? AND Generated_Time >= DATE_SUB(NOW(), INTERVAL 15 MINUTE)
activeQR(qr, courseId, t) ==
    {q \in qr : q.Course_ID = courseId /\ q.Generated_Time >= t - Window}

\* the whole handler: the assignment query, then the query for the live codes
GetActiveQr(p) ==
    /\ pc[p] = "call"
    /\ req[p].route = "GET /api/courses/:courseId/active-qr"
    /\ IF ~IsTeacher(req[p].user) THEN Respond(p, Response(403, "TeacherRequired"))
       ELSE IF teacherCourse(req[p].user.id, req[p].courseId) = {} /\ ~req[p].user.Is_Admin
       THEN Respond(p, Response(403, "NotAuthorized"))
       ELSE Respond(p, Rows(activeQR(QR_code, req[p].courseId, now)))
    /\ UNCHANGED <<timetable, nextTid, QR_code, attendance, student_devices, now>>

ExpiryCalls ==
    {PostTimetablesReq(TeacherUser("t1"), b) : b \in RedeemSlotBodies}
    \cup {QrGenerateReq(TeacherUser("t1"), "c1")}
    \cup {AttendanceMarkReq(StudentUser("s1"), q) : q \in 1..MaxQr}
    \cup {QrDisplayReq(TeacherUser("t1"), q) : q \in 1..MaxQr}
    \cup {ActiveQrReq(TeacherUser(t), c) : t \in Teachers, c \in Courses}
    \cup {ActiveQrReq(StudentUser("s1"), "c1")}

CallExpiry == AllIdle /\ \E r \in ExpiryCalls : Call("w1", r)
ServeExpirySlot == PostTimetables("w1")
ServeExpiryMint == PostQrGenerate("w1")
ServeExpiryRedeem == PostAttendanceMark("w1")
ServeExpiryDisplay == GetQrDisplay("w1")
ServeExpiryActiveQr == GetActiveQr("w1")
ReturnExpiry == Return("w1")

NextExpiry ==
    \/ CallExpiry
    \/ ServeExpirySlot
    \/ ServeExpiryMint
    \/ ServeExpiryRedeem
    \/ ServeExpiryDisplay
    \/ ServeExpiryActiveQr
    \/ ReturnExpiry
    \/ Tick

SpecExpiry == Init /\ [][NextExpiry]_vars

\* the three tests applied to a stored code at the present instant
RedeemFinds(q) == qrCodes(QR_code, q.QR_ID, now) # {}
DisplayShows(q) == ~(now > expirationTime(q.Generated_Time))
ListingHolds(q) == q \in activeQR(QR_code, q.Course_ID, now)

\* at every instant the three tests agree on every stored code
TestsAgree ==
    \A q \in QR_code :
        /\ RedeemFinds(q) <=> DisplayShows(q)
        /\ DisplayShows(q) <=> ListingHolds(q)

DroppedFromListing ==
    \E p \in Workers : \E q \in QR_code :
        /\ pc[p] = "done" /\ req[p].route = "GET /api/courses/:courseId/active-qr"
        /\ res[p].status = 200
        /\ q.Course_ID = req[p].courseId
        /\ q \notin res[p].rows
        /\ now = q.Generated_Time + Window + 1

-----------------------------------------------------------------------------
(* The legacy backend (Server.js): QR code generation and attendance marking *)
(* Its routes take the teacher and the student from the request body.        *)

LegacyQrGenerateReq(teacherEmail, courseCode) ==
    [route |-> "Server.js POST /api/qr/generate",
     Teacher_Email |-> teacherEmail, Course_Code |-> courseCode]

LegacyAttendanceMarkReq(prn, qrId) ==
    [route |-> "Server.js POST /api/attendance/mark", PRN |-> prn, QR_ID |-> qrId]

\* the row of INSERT INTO QR_code (QR_ID, QR_Start_Time, QR_End_Time, Course_Code,
\* Teacher_Email): QR_End_Time = new Date(now.getTime() + 15 * 60000)
LegacyQrRow(id, t, courseCode, teacherEmail) ==
    [QR_ID |-> id, QR_Start_Time |-> t, QR_End_Time |-> t + ValidityMinutes * 60,
     Course_Code |-> courseCode, Teacher_Email |-> teacherEmail]

\* the whole handler of the legacy POST /api/qr/generate
LegacyPostQrGenerate(p) ==
    /\ pc[p] = "call"
    /\ req[p].route = "Server.js POST /api/qr/generate"
    /\ LET Course_Code == req[p].Course_Code
           Teacher_Email == req[p].Teacher_Email
       IN IF Course_Code = "" \/ Teacher_Email = ""
          THEN Respond(p, Response(400, "CourseAndTeacherRequired")) /\ UNCHANGED QR_code
          ELSE IF teacherCourse(Teacher_Email, Course_Code) = {}
          THEN Respond(p, Response(403, "NotAuthorized")) /\ UNCHANGED QR_code
          ELSE /\ QR_code' = QR_code \cup
                     {LegacyQrRow(FreshQrId(QR_code), now, Course_Code, Teacher_Email)}
               /\ Respond(p, Created(FreshQrId(QR_code)))
    /\ UNCHANGED <<timetable, nextTid, attendance, student_devices, now>>

\* SELECT * FROM QR_code WHERE QR_ID = ? AND QR_End_Time > NOW()
legacyQrCodes(qr, qrId, t) ==
    {q \in qr : q.QR_ID = qrId /\ q.QR_End_Time > t}

\* the row of INSERT INTO attendance (Is_Present, Timestamp, PRN, QR_ID)
LegacyAttendanceRow(date, prn, qrId) ==
    [Is_Present |-> TRUE, Timestamp |-> date, PRN |-> prn, QR_ID |-> qrId]

\* the whole handler of the legacy POST /api/attendance/mark
LegacyPostAttendanceMark(p) ==
    /\ pc[p] = "call"
    /\ req[p].route = "Server.js POST /api/attendance/mark"
    /\ LET PRN == req[p].PRN
           QR_ID == req[p].QR_ID
           found == legacyQrCodes(QR_code, QR_ID, now)
       IN IF PRN = "" \/ QR_ID = 0
          THEN Respond(p, Response(400, "PrnAndQrRequired")) /\ UNCHANGED attendance
          ELSE IF found = {}
          THEN Respond(p, Response(400, "InvalidOrExpired")) /\ UNCHANGED attendance
          ELSE IF studentCourse(PRN, (CHOOSE q \in found : TRUE).Course_Code) = {}
          THEN Respond(p, Response(400, "NotEnrolled")) /\ UNCHANGED attendance
          ELSE IF existingAttendance(attendance, PRN, QR_ID) # {}
          THEN Respond(p, Response(400, "AlreadyMarked")) /\ UNCHANGED attendance
          ELSE /\ attendance' = attendance \cup {LegacyAttendanceRow(now, PRN, QR_ID)}
               /\ Respond(p, Response(201, ""))
    /\ UNCHANGED <<timetable, nextTid, QR_code, student_devices, now>>

LegacyCalls ==
    {LegacyQrGenerateReq(t, c) : t \in Teachers \cup {""}, c \in Courses}
    \cup {LegacyAttendanceMarkReq(s, q) : s \in {"s1", "s2", ""}, q \in 0..(MaxQr + 1)}

CallLegacy ==
    /\ AllIdle
    /\ \E r \in LegacyCalls :
          /\ r.route = "Server.js POST /api/qr/generate" => Cardinality(QR_code) < MaxQr
          /\ Call("w1", r)
ServeLegacyMint == LegacyPostQrGenerate("w1")
ServeLegacyRedeem == LegacyPostAttendanceMark("w1")
ReturnLegacy == Return("w1")

NextLegacy ==
    \/ CallLegacy
    \/ ServeLegacyMint
    \/ ServeLegacyRedeem
    \/ ReturnLegacy
    \/ Tick

SpecLegacy == Init /\ [][NextLegacy]_vars

\* the row the main backend stores for a code generated at the same instant
MainRowOf(q) == QrRow(q.QR_ID, q.QR_Start_Time, q.Course_Code, q.Teacher_Email)

\* C31: at every instant the legacy backend's query finds a stored code exactly
\* when the main backend's query finds the code generated at the same instant
C31_SameExpiryDecision ==
    \A q \in QR_code :
        (legacyQrCodes(QR_code, q.QR_ID, now) # {})
            <=> (qrCodes({MainRowOf(q)}, q.QR_ID, now) # {})

\* the legacy route answered InvalidOrExpired to an enrolled student exactly
\* 15 minutes after the code was generated, an instant at which the main
\* backend's query finds the code
LegacyRejectsAtWindowEnd ==
    \E p \in Workers : \E q \in QR_code :
        /\ pc[p] = "done" /\ req[p].route = "Server.js POST /api/attendance/mark"
        /\ req[p].QR_ID = q.QR_ID
        /\ <<req[p].PRN, q.Course_Code>> \in student_course
        /\ res[p] = Response(400, "InvalidOrExpired")
        /\ now = q.QR_Start_Time + Window
        /\ qrCodes({MainRowOf(q)}, q.QR_ID, now) # {}

-----------------------------------------------------------------------------
(* Authentication: the request arrives with a cookie and a body, and the     *)
(* middleware decides who the caller is before the handler runs              *)

\* the cookie of a request: absent, or a token with a payload that is signed
\* with the server's secret or not
NoUser == [type |-> "none", id |-> "", Is_Admin |-> FALSE]
NoToken == [present |-> FALSE, signed |-> FALSE, user |-> NoUser]
SignedToken(user) == [present |-> TRUE, signed |-> TRUE, user |-> user]
ForgedToken(user) == [present |-> TRUE, signed |-> FALSE, user |-> user]

\* POST /api/attendance/mark as it arrives: the body may name any student
RawAttendanceMarkReq(token, qrId, prn) ==
    [route |-> "POST /api/attendance/mark", token |-> token,
     body |-> [QR_ID |-> qrId, PRN |-> prn]]

\* jwt.verify(token, JWT_SECRET, ...): no error exactly for a token signed with the secret
jwtVerify(token) == token.signed

\* a faulty variant: the caller is the student the body names
reqUserFromBody(token, body) == StudentUser(body.PRN)

\* req.user = user: the payload of the verified token
reqUser(token, body) == token.user

\* a request arrives at a worker
Receive(p, r) ==
    /\ pc[p] = "idle"
    /\ pc' = [pc EXCEPT ![p] = "received"]
    /\ req' = [req EXCEPT ![p] = r]
    /\ UNCHANGED <<timetable, nextTid, QR_code, attendance, student_devices, now, loc, res>>
    /\ UNCHANGED browser

\* authenticateToken, and the handler's reading of the body: 401 without a
\* token, 403 with one that does not verify, else the handler is called with
\* req.user and the QR_ID of the body
authenticateToken(p) ==
    /\ pc[p] = "received"
    /\ LET token == req[p].token
           body == req[p].body
       IN IF ~token.present
          THEN Respond(p, Response(401, "AuthenticationRequired"))
          ELSE IF ~jwtVerify(token)
          THEN Respond(p, Response(403, "InvalidToken"))
          ELSE /\ pc' = [pc EXCEPT ![p] = "call"]
               /\ req' = [req EXCEPT ![p] =
                             [route |-> req[p].route, user |-> reqUser(token, body),
                              QR_ID |-> body.QR_ID, token |-> token, body |-> body]]
               /\ UNCHANGED <<loc, res>>
               /\ UNCHANGED browser
    /\ UNCHANGED <<timetable, nextTid, QR_code, attendance, student_devices, now>>

AuthSetupCalls ==
    {PostTimetablesReq(TeacherUser("t1"), b) : b \in RedeemSlotBodies}
    \cup {QrGenerateReq(TeacherUser("t1"), "c1")}

AuthTokens ==
    {NoToken, SignedToken(StudentUser("s1")), ForgedToken(StudentUser("s3")),
     SignedToken(TeacherUser("t1"))}

AuthMarkCalls ==
    {RawAttendanceMarkReq(token, q, prn) :
        token \in AuthTokens, q \in 1..MaxQr, prn \in {"s1", "s3"}}

CallAuthSetup == AllIdle /\ \E r \in AuthSetupCalls : Call("w1", r)
ServeAuthSlot == PostTimetables("w1")
ServeAuthMint == PostQrGenerate("w1")
ReceiveAuthMark == AllIdle /\ \E r \in AuthMarkCalls : Receive("w1", r)
StepAuthenticateToken == authenticateToken("w1")
ServeAuthRedeem == PostAttendanceMark("w1")
ReturnAuth == Return("w1")

NextAuth ==
    \/ CallAuthSetup
    \/ ServeAuthSlot
    \/ ServeAuthMint
    \/ ReceiveAuthMark
    \/ StepAuthenticateToken
    \/ ServeAuthRedeem
    \/ ReturnAuth
    \/ Tick

SpecAuth == Init /\ [][NextAuth]_vars

\* the request of worker p arrived as a redemption with a cookie and a body
RawRedeem(p) ==
    req[p].route = "POST /api/attendance/mark" /\ "token" \in DOMAIN req[p]

\* C32: a record carries the student of the signed token of the request that
\* made it, whatever student the body names; and a redemption without a
\* token, with a token that does not verify or with a teacher's token is
\* answered 401 or 403 in the step it is first looked at, whether its code is
\* live or not, and stores nothing
C32_RecordOfAuthenticatedCaller ==
    [][\A p \in Workers :
          RawRedeem(p) =>
             LET token == req[p].token
             IN /\ \A a \in attendance' \ attendance :
                      /\ token.present /\ token.signed /\ token.user.type = "student"
                      /\ a.PRN = token.user.id
                /\ (pc[p] = "received" /\ pc'[p] # "received" /\ ~token.present)
                   => (pc'[p] = "done" /\ res'[p] = Response(401, "AuthenticationRequired"))
                /\ (pc[p] = "received" /\ pc'[p] # "received" /\ token.present /\ ~token.signed)
                   => (pc'[p] = "done" /\ res'[p] = Response(403, "InvalidToken"))
                /\ (pc[p] = "call" /\ pc'[p] # "call" /\ token.user.type # "student")
                   => (pc'[p] = "done" /\ res'[p] = Response(403, "StudentRequired"))
                /\ (pc'[p] = "done" /\ res'[p].status \in {401, 403})
                   => attendance' = attendance]_vars

\* student s1 redeemed a live code with a body that names student s3: the
\* record is s1's, and s3 has none
C32_Witness ==
    \E p \in Workers : \E a \in attendance :
        /\ pc[p] = "done" /\ RawRedeem(p)
        /\ res[p].status = 201
        /\ req[p].body.PRN = "s3"
        /\ a.PRN = "s1" /\ a.QR_ID = req[p].body.QR_ID
        /\ \A b \in attendance : b.PRN # "s3"

\* a forged token that names s3 was refused while the code of the body was live
ForgedTokenRefused ==
    \E p \in Workers :
        /\ pc[p] = "done" /\ RawRedeem(p)
        /\ req[p].token = ForgedToken(StudentUser("s3"))
        /\ res[p] = Response(403, "InvalidToken")
        /\ LiveSessionsOf(req[p].body.QR_ID) # {}

-----------------------------------------------------------------------------
(* Deletes in flight together: slots are set up by requests served alone,    *)
(* then each worker serves deletes one statement at a time                   *)

DeleteRaceSlotBodies ==
    {TimetableBody("c1", "d1", "Monday", T0000, T0015, "r1"),
     TimetableBody("c1", "d1", "Monday", T0015, T0030, "r1")}

DeleteRaceSetupCalls == {PostTimetablesReq(TeacherUser("t1"), b) : b \in DeleteRaceSlotBodies}

DeleteRaceCalls ==
    {DeleteTimetablesReq(TeacherUser(t), id) : t \in Teachers, id \in 1..MaxTid}

CallDeleteRaceSetup == AllIdle /\ \E r \in DeleteRaceSetupCalls : Call("w1", r)
ServeDeleteRaceSlot == PostTimetables("w1")
CallDeleteRace == \E p \in Workers : \E r \in DeleteRaceCalls : Call(p, r)
StepDeleteRaceStart == \E p \in Workers : DeleteStart(p)
StepDeleteRaceDelete == \E p \in Workers : DeleteDelete(p)
ReturnDeleteRace == \E p \in Workers : Return(p)

NextDeleteRace ==
    \/ CallDeleteRaceSetup
    \/ ServeDeleteRaceSlot
    \/ CallDeleteRace
    \/ StepDeleteRaceStart
    \/ StepDeleteRaceDelete
    \/ ReturnDeleteRace

SpecDeleteRace == Init /\ [][NextDeleteRace]_vars

\* worker p's delete found its slot and went on to the DELETE statement
PassedRead(p) ==
    /\ pc[p] = "done" /\ req[p].route = "DELETE /api/timetables/:timetableId"
    /\ res[p] \in {Response(200, ""), Response(404, "NotFoundOnDelete")}

\* C33: of two deletes of one slot that both found it and were both allowed,
\* exactly one is answered 200 and the other 404; the DELETE statement
\* answered 200 removes the slot named and no other, and the one answered 404
\* removes nothing
C33_OneOfTwoDeletes ==
    /\ [](\A p \in Workers : \A o \in Workers :
            (p # o /\ PassedRead(p) /\ PassedRead(o)
             /\ req[p].timetableId = req[o].timetableId)
            => /\ res[p].status = 200 \/ res[o].status = 200
               /\ res[p].status = 404 \/ res[o].status = 404)
    /\ [][\A p \in Workers :
            (pc[p] = "deleteTimetable" /\ pc'[p] = "done") =>
               /\ res'[p].status = 200 =>
                     \E s \in timetable :
                        /\ s.Timetable_ID = req[p].timetableId
                        /\ timetable' = timetable \ {s}
               /\ res'[p].status # 200 =>
                     /\ res'[p] = Response(404, "NotFoundOnDelete")
                     /\ timetable' = timetable
                     /\ \A s \in timetable : s.Timetable_ID # req[p].timetableId]_vars

\* the owner and the administrator deleted one slot together: one was
\* answered 200, the other 404 by the DELETE statement, and the other slot of
\* the teacher is still stored
C33_Witness ==
    \E p \in Workers : \E o \in Workers : \E s \in timetable :
        /\ p # o /\ PassedRead(p) /\ PassedRead(o)
        /\ req[p].timetableId = req[o].timetableId
        /\ req[p].user.id # req[o].user.id
        /\ res[p].status = 200
        /\ res[o] = Response(404, "NotFoundOnDelete")
        /\ s.Timetable_ID # req[p].timetableId


-----------------------------------------------------------------------------
(* The frontend: AuthProvider's reducer, login, logout and checkAuthStatus, *)
(* the response interceptor that logs out on 401 and 403, and the routes    *)
(* that ProtectedRoute guards                                               *)

\* calls of logout() made in a run
MaxLogouts == 2

\* what LoginPage passes to login(): {...response.student, type: 'student'}
UserData(type, id) == [type |-> type, id |-> id]

\* JSON.stringify(userData) and JSON.parse(storedUser); the text is a
\* sequence of tokens, and a text of another shape does not parse
JSONstringify(u) == <<"type", u.type, "id", u.id>>
JSONparses(text) == Len(text) = 4 /\ text[1] = "type" /\ text[3] = "id"
JSONparse(text) == [type |-> text[2], id |-> text[4]]

\* localStorage.getItem(k) is not null / setItem / removeItem
hasItem(ls, k) == k \in DOMAIN ls
setItem(ls, k, v) == [x \in DOMAIN ls \cup {k} |-> IF x = k THEN v ELSE ls[x]]
removeItem(ls, k) == [x \in DOMAIN ls \ {k} |-> ls[x]]

\* authReducer(state, action)
authReducer(s, action) ==
    CASE action.type \in {"INITIALIZE", "LOGIN_SUCCESS"} ->
            [s EXCEPT !.isAuthenticated = TRUE, !.user = action.payload.user,
                      !.isLoading = FALSE]
      [] action.type = "LOGOUT" ->
            [initialState EXCEPT !.isLoading = FALSE]
      [] action.type = "SET_LOADING" ->
            [s EXCEPT !.isLoading = action.payload]
      [] OTHER -> s

\* the state after LOGOUT
LoggedOut == [isAuthenticated |-> FALSE, user |-> null, token |-> null, isLoading |-> FALSE]

\* the routes of the login and register pages, and the accounts' password
LoginRoutes == {"POST /api/students/login", "POST /api/teachers/login"}
RegisterRoutes == {"POST /api/students/register", "POST /api/teachers/register"}
RightPassword == "right"

LoginReq(route, email, password) ==
    [route |-> route, Email |-> email, Password |-> password]

\* POST /api/teachers/register as a signed-in user sends it
TeachersRegisterReq(user) == [route |-> "POST /api/teachers/register", user |-> user]

\* error.config.url: the path handed to apiClient, whose baseURL ends in /api;
\* a path is the sequence of its slashes and segments
urlOf(r) ==
    CASE r.route = "POST /api/students/login" -> <<"/", "students", "/", "login">>
      [] r.route = "POST /api/teachers/login" -> <<"/", "teachers", "/", "login">>
      [] r.route = "POST /api/students/register" -> <<"/", "students", "/", "register">>
      [] r.route = "POST /api/teachers/register" -> <<"/", "teachers", "/", "register">>
      [] r.route = "POST /api/timetables" -> <<"/", "timetables">>
      [] r.route = "DELETE /api/timetables/:timetableId" -> <<"/", "timetables", "/", "id">>
      [] r.route = "POST /api/qr/generate" -> <<"/", "qr", "/", "generate">>
      [] r.route = "POST /api/attendance/mark" -> <<"/", "attendance", "/", "mark">>
      [] OTHER -> <<"/">>

\* url.includes(part): part occurs in url, segment by segment
includes(url, part) ==
    \E i \in 1..(Len(url) - Len(part) + 1) : SubSeq(url, i, i + Len(part) - 1) = part

\* a faulty variant: the interceptor logs out on 401 only
interceptorLogsOutOn401(url, status) ==
    /\ status = 401
    /\ ~includes(url, <<"/", "login">>) /\ ~includes(url, <<"/", "register">>)

\* the response interceptor's test: the error has a response with status 401
\* or 403 and the request was not a login or register attempt
interceptorLogsOut(url, status) ==
    /\ status = 401 \/ status = 403
    /\ ~includes(url, <<"/", "login">>) /\ ~includes(url, <<"/", "register">>)

\* login(userData)
login(userData) ==
    /\ localStorage' = setItem(localStorage, "user", JSONstringify(userData))
    /\ state' = authReducer(state, [type |-> "LOGIN_SUCCESS", payload |-> [user |-> userData]])
    /\ UNCHANGED logouts

\* logout() up to its await: the state is loading and apiLogout() is pending
logout ==
    /\ Len(logouts) < MaxLogouts
    /\ state' = authReducer(state, [type |-> "SET_LOADING", payload |-> TRUE])
    /\ logouts' = Append(logouts, [apiLogout |-> "pending"])
    /\ UNCHANGED localStorage

\* logout() from its await on: apiLogout() resolved, or it was rejected and
\* the catch block logged the error; the finally block runs in both cases.
\* POST /api/logout answers 200 whenever it answers, so a rejection carries
\* no 401 or 403 and the interceptor lets it pass
logoutReturns(i, outcome) ==
    /\ i \in 1..Len(logouts)
    /\ logouts[i].apiLogout = "pending"
    /\ outcome \in {"resolved", "rejected"}
    /\ logouts' = [logouts EXCEPT ![i].apiLogout = outcome]
    /\ localStorage' = removeItem(localStorage, "user")
    /\ state' = authReducer(state, [type |-> "LOGOUT"])

\* checkAuthStatus(): no await, so it runs as one step
checkAuthStatus ==
    LET loading == authReducer(state, [type |-> "SET_LOADING", payload |-> TRUE])
    IN /\ IF ~hasItem(localStorage, "user")
          THEN /\ state' = authReducer(loading, [type |-> "LOGOUT"])
               /\ UNCHANGED localStorage
          ELSE IF JSONparses(localStorage["user"])
          THEN /\ state' = authReducer(loading,
                              [type |-> "INITIALIZE",
                               payload |-> [user |-> JSONparse(localStorage["user"])]])
               /\ UNCHANGED localStorage
          ELSE /\ localStorage' = removeItem(localStorage, "user")
               /\ state' = authReducer(loading, [type |-> "LOGOUT"])
       /\ UNCHANGED logouts

\* what the browser never touches
server == <<timetable, nextTid, QR_code, attendance, student_devices, now, pc, req, loc, res>>

\* the accounts a login route looks the email up in
Accounts(route) == IF route = "POST /api/students/login" THEN Students ELSE Teachers

\* POST /api/students/login and POST /api/teachers/login: 400 without an
\* email or a password, 401 for an unknown email or a wrong password, else
\* 200 with the account's row
PostLogin(p) ==
    /\ pc[p] = "call"
    /\ req[p].route \in LoginRoutes
    /\ IF req[p].Email = "" \/ req[p].Password = ""
       THEN Respond(p, Response(400, "EmailAndPasswordRequired"))
       ELSE IF req[p].Email \notin Accounts(req[p].route)
       THEN Respond(p, Response(401, "InvalidCredentials"))
       ELSE IF req[p].Password # RightPassword
       THEN Respond(p, Response(401, "InvalidCredentials"))
       ELSE Respond(p, Response(200, ""))
    /\ UNCHANGED <<timetable, nextTid, QR_code, attendance, student_devices, now>>

\* requireAdmin in front of POST /api/teachers/register: 403 unless the user
\* is an administrator teacher (the handler behind it is not modelled, and
\* no administrator sends this request in the model)
requireAdminDenies(p) ==
    /\ pc[p] = "call"
    /\ req[p].route = "POST /api/teachers/register"
    /\ ~(IsTeacher(req[p].user) /\ req[p].user.Is_Admin)
    /\ Respond(p, Response(403, "AdminRequired"))
    /\ UNCHANGED <<timetable, nextTid, QR_code, attendance, student_devices, now>>

\* the role chosen on the login page decides the route and the type
roleOf(route) == IF route = "POST /api/students/login" THEN "student" ELSE "teacher"

\* a response reaches the browser: the interceptor runs on an error and may
\* call logout(); LoginPage calls login() when its request succeeded
ResponseArrives(p) ==
    /\ pc[p] = "done"
    /\ IF interceptorLogsOut(urlOf(req[p]), res[p].status)
       THEN logout
       ELSE IF req[p].route \in LoginRoutes /\ res[p].status = 200
       THEN login(UserData(roleOf(req[p].route), req[p].Email))
       ELSE UNCHANGED browser
    /\ pc' = [pc EXCEPT ![p] = "idle"]
    /\ req' = [req EXCEPT ![p] = NoReq]
    /\ res' = [res EXCEPT ![p] = NoRes]
    /\ UNCHANGED <<timetable, nextTid, QR_code, attendance, student_devices, now, loc>>

\* the users whose data an earlier visit may have left in localStorage
StoredUsers == {UserData("student", "s1"), UserData("teacher", "t1")}

\* the requests the pages send: a slot and a code of t2, t1 asking for a code
\* without a slot and deleting the slot of t2, logins with a right and a
\* wrong password, a registration of a teacher by a teacher who is no
\* administrator
BrowserCalls ==
    {PostTimetablesReq(TeacherUser("t2"), b) : b \in RedeemSlotBodies}
    \cup {QrGenerateReq(TeacherUser(t), "c1") : t \in {"t1", "t2"}}
    \cup {DeleteTimetablesReq(TeacherUser("t1"), 1)}
    \cup {LoginReq("POST /api/students/login", "s1", pw) : pw \in {RightPassword, "wrong"}}
    \cup {LoginReq("POST /api/teachers/login", "t1", pw) : pw \in {RightPassword, "wrong"}}
    \cup {TeachersRegisterReq(TeacherUser("t1"))}

\* redemptions without a cookie, by an enrolled student and by one who is not
BrowserMarkCalls ==
    {RawAttendanceMarkReq(token, 1, "s1") :
        token \in {NoToken, SignedToken(StudentUser("s1")), SignedToken(StudentUser("s2"))}}

InitBrowser ==
    /\ timetable = {}
    /\ nextTid = 0
    /\ QR_code = {}
    /\ attendance = {}
    /\ student_devices = [s \in Students |-> 0]
    /\ now = 0
    /\ pc = [p \in Workers |-> "idle"]
    /\ req = [p \in Workers |-> NoReq]
    /\ loc = [p \in Workers |-> NoLoc]
    /\ res = [p \in Workers |-> NoRes]
    /\ state = initialState
    /\ localStorage \in {NoItems} \cup {setItem(NoItems, "user", JSONstringify(u)) : u \in StoredUsers}
    /\ logouts = <<>>

Mount == checkAuthStatus /\ UNCHANGED server
LogoutReturns ==
    /\ \E i \in 1..Len(logouts) : \E outcome \in {"resolved", "rejected"} : logoutReturns(i, outcome)
    /\ UNCHANGED server
SendBrowser == AllIdle /\ \E r \in BrowserCalls : Call("w1", r)
SendBrowserMark == AllIdle /\ \E r \in BrowserMarkCalls : Receive("w1", r)
StepBrowserAuthenticate == authenticateToken("w1")
ServeBrowserSlot == PostTimetables("w1")
ServeBrowserDelete == DeleteTimetables("w1")
ServeBrowserMint == PostQrGenerate("w1")
ServeBrowserRedeem == PostAttendanceMark("w1")
ServeBrowserLogin == PostLogin("w1")
ServeBrowserRegister == requireAdminDenies("w1")
ResponseArrivesBrowser == ResponseArrives("w1")

NextBrowser ==
    \/ Mount
    \/ LogoutReturns
    \/ SendBrowser
    \/ SendBrowserMark
    \/ StepBrowserAuthenticate
    \/ ServeBrowserSlot
    \/ ServeBrowserDelete
    \/ ServeBrowserMint
    \/ ServeBrowserRedeem
    \/ ServeBrowserLogin
    \/ ServeBrowserRegister
    \/ ResponseArrivesBrowser

\* POST /api/logout is answered, or the connection fails: apiLogout() settles
SpecBrowser == InitBrowser /\ [][NextBrowser]_vars /\ WF_vars(LogoutReturns)

\* the response held by worker p is handed to the browser in this step
Arrives(p) == pc[p] = "done" /\ pc'[p] = "idle"

\* the i-th call of logout() waits for apiLogout()
Pending(i) == i <= Len(logouts) /\ logouts[i].apiLogout = "pending"

\* the browser is logged out: the state LOGOUT leaves and no stored user
BrowserLoggedOut ==
    /\ state.isAuthenticated = FALSE
    /\ state.user = null
    /\ state.isLoading = FALSE
    /\ ~hasItem(localStorage, "user")

\* C34: a response with status 401 or 403 to a request whose URL holds
\* neither /login nor /register starts a logout (the state is loading and a
\* call of logout() is pending), the 403 of NotEnrolled, NotCurrentlyScheduled
\* and Forbidden included; a 401 or 403 on a login or register URL leaves the
\* browser as it was; when a call of logout() returns, whether apiLogout()
\* resolved or was rejected, the state is not authenticated, has no user, is
\* not loading, and the stored user is gone; and every pending call of
\* logout() returns into such a state.
C34_LogoutOnUnauthorized ==
    /\ [][/\ \A p \in Workers :
               Arrives(p) =>
                  LET url == urlOf(req[p])
                      refused == res[p].status \in {401, 403}
                      attempt == \/ includes(url, <<"/", "login">>)
                                 \/ includes(url, <<"/", "register">>)
                  IN /\ (refused /\ ~attempt) =>
                           /\ Len(logouts') = Len(logouts) + 1
                           /\ logouts'[Len(logouts')].apiLogout = "pending"
                           /\ state'.isLoading = TRUE
                     /\ (refused /\ attempt) => UNCHANGED browser
                     /\ res[p].error \in {"NotEnrolled", "NotCurrentlyScheduled", "Forbidden"}
                           => Len(logouts') = Len(logouts) + 1
          /\ \A i \in 1..MaxLogouts :
               (Pending(i) /\ ~Pending(i)') => BrowserLoggedOut']_vars
    /\ \A i \in 1..MaxLogouts : Pending(i) ~> (~Pending(i) /\ BrowserLoggedOut)

\* a student who is not enrolled was answered 403, the browser called
\* logout(), apiLogout() was rejected, and the browser is logged out
C34_Witness ==
    /\ \E i \in 1..Len(logouts) : logouts[i].apiLogout = "rejected"
    /\ \A i \in 1..Len(logouts) : logouts[i].apiLogout # "pending"
    /\ BrowserLoggedOut
    /\ QR_code # {}

-----------------------------------------------------------------------------
(* ProtectedRoute: what a guarded route renders in an auth state *)

\* the allowedRoles prop: absent, or an array of roles
NoRoles == [given |-> FALSE, roles |-> {}]
Roles(rs) == [given |-> TRUE, roles |-> rs]

\* the props the guarded routes are given in the model
RouteRoles == {NoRoles, Roles({}), Roles({"student"}), Roles({"teacher"}),
               Roles({"student", "teacher"})}

\* user?.type
typeOf(user) == IF user = null THEN undefined ELSE user.type

\* what ProtectedRoute returns
PageLoader == [render |-> "PageLoader", to |-> ""]
Navigate(to) == [render |-> "Navigate", to |-> to]
children == [render |-> "children", to |-> ""]

\* a faulty variant: the route does not wait for the state to load
ProtectedRouteWhileLoading(s, allowedRoles) ==
    IF ~s.isAuthenticated
    THEN Navigate("/login")
    ELSE IF allowedRoles.given /\ typeOf(s.user) \notin allowedRoles.roles
    THEN Navigate(IF typeOf(s.user) = "teacher" THEN "/teacher" ELSE "/student")
    ELSE children

\* ProtectedRoute({children, allowedRoles}) with useAuth() yielding s
ProtectedRoute(s, allowedRoles) ==
    IF s.isLoading
    THEN PageLoader
    ELSE IF ~s.isAuthenticated
    THEN Navigate("/login")
    ELSE IF allowedRoles.given /\ typeOf(s.user) \notin allowedRoles.roles
    THEN Navigate(IF typeOf(s.user) = "teacher" THEN "/teacher" ELSE "/student")
    ELSE children

\* every value the reducer's state may take
AuthStates ==
    [isAuthenticated : BOOLEAN, user : {null} \cup StoredUsers, token : {null},
     isLoading : BOOLEAN]

====
